---- MODULE Spec2Model ----
(***************************************************************************)
(* Verification model of the key-backup core of e2e-chat-app:              *)
(*   - ProductionShamirService.js  (split / reconstruct over a prime field)*)
(*   - SecureShareContract / SecureShareRegistry (Solidity custodian and   *)
(*     registry: lifecycle, authorization, time-locked recovery, throttle) *)
(* A reverted Solidity call leaves the ledger state unchanged, so a call   *)
(* is modelled as an action that is enabled exactly when every require of  *)
(* the handler passes; the conditions are kept as named predicates so that *)
(* "the call is rejected" is a statement about the state.                  *)
(***************************************************************************)
EXTENDS Integers, Sequences, FiniteSets, TLC

VARIABLES
    \* ---- ProductionShamirService: one split / reconstruct session
    sPc,            \* "start" | "split" | "done"
    sKey,           \* privateKeyHex: sequence of hex digits
    sN,             \* numShares
    sT,             \* threshold
    sRand,          \* the values _secureRandomFieldElement returns, in call order
    sShares,        \* result of generateShares: sequence of [x, y]
    sInput,         \* the shares handed to reconstructSecret
    sOutput,        \* what reconstructSecret returned: [ok, hex]
    \* ---- the ledger
    now,            \* block.timestamp
    \* ---- SecureShareRegistry storage
    paused,         \* Pausable
    serviceFee,
    shareConfigs,   \* address -> ShareConfig
    userShares,     \* address -> sequence of custodian addresses
    recoveryAddresses,  \* address -> sequence of addresses
    emergencyContacts,  \* address -> address
    recoveryRequests,   \* address -> RecoveryRequest
    blacklisted,
    feeExemptions,
    lastActionTimestamp,
    failedAttempts,
    \* ---- the deployed SecureShareContract instances, in deployment order;
    \*      the address of a custodian is its position in this sequence
    custodians,
    \* ---- bookkeeping of the model
    usedSignatures, \* signatures with which storeSharesFor has succeeded
    lastCall,       \* per account, the time of its last successful throttled call
    failures,       \* per account, its reverted registry calls since its last successful one
    count,          \* time advances and stores so far (see MaxTicks, MaxStores)
    scope,          \* the kind of behaviour explored (see Scopes)
    \* ---- one encryptShare / decryptShare session
    cPc,            \* "idle", "start", "sealed" or "done"
    cSk,            \* the recipient's private key
    cShare,         \* the share handed to encryptShare
    cPayload,       \* the payload that was encrypted
    cBlob,          \* the encrypted share as stored in a custodian
    cTampered,      \* whether one byte of cBlob was changed after encryption
    cResult,        \* what decryptShare returned
    \* ---- one run each of the client-side procedures (records; pc "idle"
    \*      while the procedure is not under study)
    inverse,        \* two calls of modInverse
    retry,          \* _sendTransactionWithRetry
    wait,           \* a mutating operation of SecureShareRegistryService
    multi           \* getMultipleShares

shamirVars == <<sPc, sKey, sN, sT, sRand, sShares, sInput, sOutput>>

registryVars == <<paused, serviceFee, shareConfigs, userShares, recoveryAddresses,
                  emergencyContacts, recoveryRequests, blacklisted, feeExemptions,
                  lastActionTimestamp, failedAttempts>>

cryptoVars == <<cPc, cSk, cShare, cPayload, cBlob, cTampered, cResult>>

serviceVars == <<inverse, retry, wait, multi>>

vars == <<shamirVars, cryptoVars, serviceVars, now, registryVars, custodians, usedSignatures, lastCall,
          failures, count, scope>>

-----------------------------------------------------------------------------
(* JavaScript BigInt arithmetic: / truncates toward zero and % keeps the   *)
(* sign of the dividend.                                                   *)

Abs(a) == IF a < 0 THEN -a ELSE a

BigIntDiv(a, b) ==
    LET q == Abs(a) \div Abs(b)
    IN  IF (a < 0) # (b < 0) THEN -q ELSE q

BigIntRem(a, b) == a - b * BigIntDiv(a, b)

-----------------------------------------------------------------------------
(* ProductionShamirService                                                 *)

\* getPrime(): the field modulus. The service uses the 256-bit order of
\* NIST P-256; the model runs the same arithmetic over a small prime.
Prime == 11

\* Length of a private key in hex digits (_validateInputs: length >= 64).
KeyHexLen == 64

\* Largest numShares drawn by the model.
MaxN == 3

HexDigit == 0..15

\* hexToBytes: two hex digits per byte, big-endian.
hexToBytes(hex) ==
    [i \in 1..(Len(hex) \div 2) |-> 16 * hex[2 * i - 1] + hex[2 * i]]

RECURSIVE BytesAcc(_, _, _, _)
BytesAcc(bytes, i, result, prime) ==
    IF i > Len(bytes) THEN result
    ELSE BytesAcc(bytes, i + 1, BigIntRem(result * 256 + bytes[i], prime), prime)

\* bytesToFieldElement(bytes, prime)
bytesToFieldElement(bytes, prime) == BytesAcc(bytes, 1, 0, prime)

\* BigInt.prototype.toString(16) of a non-negative value: most significant first.
RECURSIVE ToHexDigits(_)
ToHexDigits(n) ==
    IF n < 16 THEN <<n>> ELSE Append(ToHexDigits(n \div 16), n % 16)

\* fieldElementToHex: toString(16).padStart(64, '0')
fieldElementToHex(fieldElement) ==
    LET d == ToHexDigits(fieldElement)
    IN  IF Len(d) >= KeyHexLen THEN d
        ELSE [i \in 1..(KeyHexLen - Len(d)) |-> 0] \o d

\* y.toString(): decimal digits of a non-negative BigInt.
RECURSIVE ToDecimal(_)
ToDecimal(n) ==
    IF n < 10 THEN <<n>> ELSE Append(ToDecimal(n \div 10), n % 10)

\* BigInt(str) of a decimal string.
RECURSIVE FromDecimal(_)
FromDecimal(d) ==
    IF Len(d) = 0 THEN 0
    ELSE 10 * FromDecimal(SubSeq(d, 1, Len(d) - 1)) + d[Len(d)]

\* _validateInputs
ValidInputs(privateKeyHex, numShares, threshold) ==
    /\ Len(privateKeyHex) >= 64
    /\ numShares >= 2 /\ numShares <= 100
    /\ threshold >= 2 /\ threshold <= numShares

RECURSIVE EvalAcc(_, _, _, _, _, _)
EvalAcc(coefficients, i, x, prime, result, power) ==
    IF i > Len(coefficients) THEN result
    ELSE EvalAcc(coefficients, i + 1, x, prime,
                 BigIntRem(result + coefficients[i] * power, prime),
                 BigIntRem(power * x, prime))

\* evaluatePolynomial(coefficients, x, prime)
evaluatePolynomial(coefficients, x, prime) ==
    EvalAcc(coefficients, 1, x, prime, 0, 1)

\* generateShares, after validation: coefficients = [secret] ++ random values,
\* one share {x, y: y.toString()} for x = 1..numShares.
generateShares(privateKeyHex, numShares, threshold, rand) ==
    LET secret == bytesToFieldElement(hexToBytes(privateKeyHex), Prime)
        coefficients == <<secret>> \o rand
    IN  [k \in 1..numShares |->
            [x |-> k, y |-> ToDecimal(evaluatePolynomial(coefficients, k, Prime))]]

\* _validateShares: at least 2 shares, no duplicate x, every share well formed
\* (x truthy, y a non-empty string of digits).
ValidShares(shares) ==
    /\ Len(shares) >= 2
    /\ Cardinality({shares[i].x : i \in 1..Len(shares)}) = Len(shares)
    /\ \A i \in 1..Len(shares) : shares[i].x # 0 /\ Len(shares[i].y) > 0

\* The while loop of modInverse: state (old_r, r, old_s, s), one iteration per call.
RECURSIVE EuclidLoop(_, _, _, _, _)
EuclidLoop(old_r, r, old_s, s, steps) ==
    IF r = 0 THEN [gcd |-> old_r, s |-> old_s, steps |-> steps]
    ELSE LET quotient == BigIntDiv(old_r, r)
         IN  EuclidLoop(r, old_r - quotient * r, s, old_s - quotient * s, steps + 1)

\* modInverse(a, m): ((old_s % m) + m) % m
modInverse(a, m) ==
    LET e == EuclidLoop(a, m, 1, 0, 0)
    IN  BigIntRem(BigIntRem(e.s, m) + m, m)

\* Inner loop of _constantTimeLagrangeInterpolation over j, for a fixed i:
\* returns <<numerator, denominator>>.
RECURSIVE LagrangeInner(_, _, _, _, _, _, _)
LagrangeInner(shares, i, j, x, prime, numerator, denominator) ==
    IF j > Len(shares) THEN <<numerator, denominator>>
    ELSE LET xi == shares[i].x
             xj == shares[j].x
             term1 == BigIntRem(x - xj, prime)
             term2 == BigIntRem(xi - xj, prime)
             shouldUpdate == IF i # j THEN 1 ELSE 0
         IN  LagrangeInner(shares, i, j + 1, x, prime,
                 BigIntRem(numerator * (term1 * shouldUpdate + 1 * (1 - shouldUpdate)), prime),
                 BigIntRem(denominator * (term2 * shouldUpdate + 1 * (1 - shouldUpdate)), prime))

\* The denominator handed to modInverse for share i.
Denominator(shares, i, x, prime) == LagrangeInner(shares, i, 1, x, prime, 1, 1)[2]

RECURSIVE LagrangeOuter(_, _, _, _, _)
LagrangeOuter(shares, i, x, prime, result) ==
    IF i > Len(shares) THEN result
    ELSE LET nd == LagrangeInner(shares, i, 1, x, prime, 1, 1)
             inverseDenominator == modInverse(nd[2], prime)
             basis == BigIntRem(nd[1] * inverseDenominator, prime)
             yi == FromDecimal(shares[i].y)
         IN  LagrangeOuter(shares, i + 1, x, prime,
                 BigIntRem(result + BigIntRem(yi * basis, prime), prime))

\* _constantTimeLagrangeInterpolation(shares, x, prime)
LagrangeInterpolation(shares, x, prime) ==
    BigIntRem(LagrangeOuter(shares, 1, x, prime, 0) + prime, prime)

\* reconstructSecret(shares): a validation failure throws, otherwise the hex
\* form of the interpolated value at 0.
reconstructSecret(shares) ==
    IF ~ValidShares(shares) THEN [ok |-> FALSE, hex |-> <<>>]
    ELSE [ok |-> TRUE, hex |-> fieldElementToHex(LagrangeInterpolation(shares, 0, Prime))]

-----------------------------------------------------------------------------
(* EccService and the share encryption of ProductionShamirService          *)
(* Byte strings are sequences over 0..255 and hex strings sequences of hex *)
(* digits. ECDH, SHA-256, AES-GCM and JSON are library code: they are      *)
(* modelled by small functions with the properties the services rely on.   *)

\* Sizes in bytes of the components parseFromContract cuts out.
IV_SIZE        == 16
EPHEM_KEY_SIZE == 65
MAC_SIZE       == 16

\* bytesToHex: two hex digits per byte.
bytesToHex(bytes) ==
    [i \in 1..(2 * Len(bytes)) |->
        IF i % 2 = 1 THEN bytes[(i + 1) \div 2] \div 16 ELSE bytes[i \div 2] % 16]

RECURSIVE WeightedSum(_, _)
WeightedSum(bytes, k) ==
    IF k = 0 THEN 0 ELSE k * bytes[k] + WeightedSum(bytes, k - 1)

\* The big-endian encoding of n in len bytes.
RECURSIVE ToBytes(_, _)
ToBytes(n, len) ==
    IF len = 0 THEN <<>> ELSE Append(ToBytes(n \div 256, len - 1), n % 256)

\* secp256k1.getPublicKey(privateKey, false): the uncompressed point, 0x04
\* followed by 64 bytes of coordinates; the point of private key k is k * G.
getPublicKey(privateKey) ==
    <<4>> \o [i \in 1..(EPHEM_KEY_SIZE - 2) |-> 0] \o <<privateKey>>

\* secp256k1.getSharedSecret(privateKey, publicKey), hashed: throws unless
\* publicKey encodes a point of the curve; else the secret of the pair.
getSharedSecret(privateKey, publicKey) ==
    IF /\ Len(publicKey) = EPHEM_KEY_SIZE
       /\ publicKey[1] = 4
       /\ \A i \in 2..(EPHEM_KEY_SIZE - 1) : publicKey[i] = 0
       /\ publicKey[EPHEM_KEY_SIZE] > 0
    THEN [ok |-> TRUE, secret |-> privateKey * publicKey[EPHEM_KEY_SIZE]]
    ELSE [ok |-> FALSE, secret |-> 0]

\* sha256 of a byte string, cut to two bytes.
sha256(bytes) == ToBytes((WeightedSum(bytes, Len(bytes)) + 7 * Len(bytes)) % 65536, 2)

\* AES-GCM: the keystream byte of (key, iv) and the 16-byte tag over
\* (key, iv, ciphertext); two inputs that differ in one byte have different tags.
GcmKeystream(key, iv) == (key + WeightedSum(iv, Len(iv))) % 256
GcmTag(key, iv, ciphertext) ==
    ToBytes(key + WeightedSum(iv \o ciphertext, Len(iv) + Len(ciphertext)), MAC_SIZE)

\* crypto.subtle.encrypt({name: 'AES-GCM', iv, tagLength: 128}, key, data):
\* the ciphertext followed by the tag.
GcmEncrypt(key, iv, data) ==
    LET ciphertext == [i \in 1..Len(data) |-> (data[i] + GcmKeystream(key, iv)) % 256]
    IN  ciphertext \o GcmTag(key, iv, ciphertext)

\* crypto.subtle.decrypt: throws unless the tag is the tag of (key, iv, ciphertext).
GcmDecrypt(key, iv, data) ==
    IF Len(data) < MAC_SIZE THEN [ok |-> FALSE, data |-> <<>>]
    ELSE LET ciphertext == SubSeq(data, 1, Len(data) - MAC_SIZE)
             tag        == SubSeq(data, Len(data) - MAC_SIZE + 1, Len(data))
         IN  IF tag # GcmTag(key, iv, ciphertext) THEN [ok |-> FALSE, data |-> <<>>]
             ELSE [ok |-> TRUE,
                   data |-> [i \in 1..Len(ciphertext) |->
                               (ciphertext[i] + 256 - GcmKeystream(key, iv)) % 256]]

\* EccService.encrypt(publicKeyHex, message), with the ephemeral private key
\* and the IV it draws at random.
EccEncrypt(publicKeyHex, message, ephemeralPrivateKey, iv) ==
    LET publicKey          == hexToBytes(publicKeyHex)
        ephemeralPublicKey == getPublicKey(ephemeralPrivateKey)
        sharedSecret       == getSharedSecret(ephemeralPrivateKey, publicKey).secret
        encryptedArray     == GcmEncrypt(sharedSecret, iv, message)
        ciphertextLength   == Len(encryptedArray) - MAC_SIZE
    IN  [iv             |-> bytesToHex(iv),
         ephemPublicKey |-> bytesToHex(ephemeralPublicKey),
         ciphertext     |-> bytesToHex(SubSeq(encryptedArray, 1, ciphertextLength)),
         mac            |-> bytesToHex(SubSeq(encryptedArray, ciphertextLength + 1,
                                              Len(encryptedArray)))]

\* EccService.decrypt(privateKeyHex, encryptedData): [ok: no error thrown,
\*                                                    message: the plaintext]
EccDecrypt_noTagCheck(privateKey, encryptedData) ==
    LET iv             == hexToBytes(encryptedData.iv)
        ephemPublicKey == hexToBytes(encryptedData.ephemPublicKey)
        ciphertext     == hexToBytes(encryptedData.ciphertext)
        shared         == getSharedSecret(privateKey, ephemPublicKey)
    IN  IF ~shared.ok THEN [ok |-> FALSE, message |-> <<>>]
        ELSE [ok |-> TRUE,
              message |-> [i \in 1..Len(ciphertext) |->
                  (ciphertext[i] + 256 - GcmKeystream(shared.secret, iv)) % 256]]

EccDecrypt(privateKey, encryptedData) ==
    LET iv             == hexToBytes(encryptedData.iv)
        ephemPublicKey == hexToBytes(encryptedData.ephemPublicKey)
        ciphertext     == hexToBytes(encryptedData.ciphertext)
        mac            == hexToBytes(encryptedData.mac)
        shared         == getSharedSecret(privateKey, ephemPublicKey)
    IN  IF ~shared.ok THEN [ok |-> FALSE, message |-> <<>>]
        ELSE LET decrypted == GcmDecrypt(shared.secret, iv, ciphertext \o mac)
             IN  [ok |-> decrypted.ok, message |-> decrypted.data]

\* formatForContract(encryptedData): '0x' and the four hex strings in a row.
formatForContract(encryptedData) ==
    [prefix |-> TRUE,
     hex    |-> encryptedData.iv \o encryptedData.ephemPublicKey
                \o encryptedData.ciphertext \o encryptedData.mac]

\* String.prototype.substring(start, end): both clamped to 0..length and
\* swapped when start > end.
Clamp(n, length) == IF n < 0 THEN 0 ELSE IF n > length THEN length ELSE n
substring(str, start, end) ==
    LET a == Clamp(start, Len(str))
        b == Clamp(end, Len(str))
    IN  IF a <= b THEN SubSeq(str, a + 1, b) ELSE SubSeq(str, b + 1, a)

\* parseFromContract with the ephemeral key taken as a compressed point.
parseFromContract_compressedKey(hexString) ==
    LET hex      == hexString.hex
        keySize  == 33 * 2
        macStart == Len(hex) - MAC_SIZE * 2
    IN  [iv             |-> substring(hex, 0, IV_SIZE * 2),
         ephemPublicKey |-> substring(hex, IV_SIZE * 2, IV_SIZE * 2 + keySize),
         ciphertext     |-> substring(hex, IV_SIZE * 2 + keySize, macStart),
         mac            |-> substring(hex, macStart, Len(hex))]

\* parseFromContract(hexString): the '0x' prefix, if present, is dropped.
parseFromContract(hexString) ==
    LET hex      == hexString.hex
        macStart == Len(hex) - MAC_SIZE * 2
    IN  [iv             |-> substring(hex, 0, IV_SIZE * 2),
         ephemPublicKey |-> substring(hex, IV_SIZE * 2, IV_SIZE * 2 + EPHEM_KEY_SIZE * 2),
         ciphertext     |-> substring(hex, IV_SIZE * 2 + EPHEM_KEY_SIZE * 2, macStart),
         mac            |-> substring(hex, macStart, Len(hex))]

\* _computeShareChecksum(share): hex of the hash of JSON.stringify({x, y}).
computeShareChecksum(share) ==
    bytesToHex(sha256(<<share.x, Len(share.y)>> \o share.y))

\* A decrypted payload: the share and, when present, its metadata.
NoMetadata == [present |-> FALSE, timestamp |-> 0, checksum |-> <<>>]

\* JSON.stringify of a payload, as bytes: x, the length of y, the digits of
\* y, then a marker byte and, if there is metadata, timestamp and checksum.
JSONstringify(payload) ==
    <<payload.x, Len(payload.y)>> \o payload.y \o
    (IF payload.metadata.present
     THEN <<1, payload.metadata.timestamp, Len(payload.metadata.checksum)>>
          \o payload.metadata.checksum
     ELSE <<0>>)

\* JSON.parse: throws on text that is no such object.
JSONparse(text) ==
    LET n      == Len(text)
        ylen   == IF n >= 2 THEN text[2] ELSE 0
        marker == 2 + ylen + 1
        bad    == [ok |-> FALSE, x |-> 0, y |-> <<>>, metadata |-> NoMetadata]
    IN  IF n < 3 \/ n < marker THEN bad
        ELSE IF text[marker] = 0 /\ n = marker
             THEN [ok |-> TRUE, x |-> text[1], y |-> SubSeq(text, 3, 2 + ylen),
                   metadata |-> NoMetadata]
        ELSE IF text[marker] = 1 /\ n >= marker + 2 /\ n = marker + 2 + text[marker + 2]
             THEN [ok |-> TRUE, x |-> text[1], y |-> SubSeq(text, 3, 2 + ylen),
                   metadata |-> [present |-> TRUE, timestamp |-> text[marker + 1],
                                 checksum |-> SubSeq(text, marker + 3, n)]]
        ELSE bad

\* The payload encryptShare builds: {...share, metadata: {timestamp, checksum}}.
EnrichedShare(share, timestamp) ==
    [x |-> share.x, y |-> share.y,
     metadata |-> [present |-> TRUE, timestamp |-> timestamp,
                   checksum |-> computeShareChecksum(share)]]

\* encryptShare(publicKeyHex, share), with Date.now() and the random values
\* EccService.encrypt draws.
encryptShare(publicKeyHex, share, timestamp, ephemeralPrivateKey, iv) ==
    formatForContract(
        EccEncrypt(publicKeyHex, JSONstringify(EnrichedShare(share, timestamp)),
                   ephemeralPrivateKey, iv))

\* decryptShare(privateKeyHex, encryptedShareHex): [ok: no error thrown,
\*                                                  share: the returned share]
decryptShare(privateKey, encryptedShareHex) ==
    LET encryptedData == parseFromContract(encryptedShareHex)
        decrypted     == EccDecrypt(privateKey, encryptedData)
        enrichedShare == JSONparse(decrypted.message)
        share         == [x |-> enrichedShare.x, y |-> enrichedShare.y]
        failed        == [ok |-> FALSE, share |-> [x |-> 0, y |-> <<>>]]
    IN  IF ~decrypted.ok THEN failed
        ELSE IF ~enrichedShare.ok THEN failed
        ELSE IF /\ enrichedShare.metadata.present
                /\ computeShareChecksum(share) # enrichedShare.metadata.checksum
             THEN failed
        ELSE [ok |-> TRUE, share |-> share]

-----------------------------------------------------------------------------
(* Addresses and inputs of the ledger model                                *)

Zero     == "0x0"        \* address(0)
Admin    == "admin"      \* owner() of the registry (Ownable deployer)
Registry == "registry"   \* address(this) of SecureShareRegistry
Alice    == "alice"
Bob      == "bob"
Carol    == "carol"

Addr    == {Zero, Admin, Registry, Alice, Bob, Carol}
\* Externally owned accounts that send transactions.
Senders == {Admin, Alice, Bob}
\* The accounts that store shares in the model, the accounts that submit a
\* delegated store, and the account that manages a recovery list.
Owners     == {Alice}
Submitters == {Bob}
Managers   == {Alice}
Candidates == {Zero, Registry, Alice, Bob}
Contacts   == {Zero, Alice, Bob}
\* The accounts that call cancelRecovery: the owner, the initiator and an
\* account with no role; the administrator cancels through
\* emergencyCancelRecovery.
Cancellers == {Alice, Bob, Carol}
\* The custodians called directly, and the indices asked of the registry: the
\* first share of the first and of the second store, and an index out of range.
DirectTargets == {1, 4}
Indices       == {0, 3}

\* Program constants (seconds).
THROTTLE_DURATION   == 300
MAX_FAILED_ATTEMPTS == 5
ACCESS_INTERVAL     == 300       \* custodian rate limit: 5 minutes
LOCKOUT_DURATION    == 3600      \* 1 hours
COOLDOWN_DURATION   == 86400     \* 1 days
RECOVERY_LOCK       == 172800    \* 48 hours
MIN_SHARES          == 3
MAX_SHARES          == 100
MAX_RECOVERY        == 10

\* block.timestamp of the deployment block.
GenesisTime == 1000000

\* Bounds of the exploration.
MaxTicks    == 2    \* time advances
MaxStores   == 2    \* successful storeShares / storeSharesFor
MaxSettings == 1    \* administrative settings that differ from the deployment
MaxDirect   == 1    \* custodians the owner has deactivated or updated directly
MaxAccess   == 1    \* successful getShare calls, over all custodians
MaxFailures == 5    \* reverted calls in a row, per account

\* Amounts by which block.timestamp advances between transactions.
TickSteps == {THROTTLE_DURATION, RECOVERY_LOCK}

\* msg.value and service fee, in units of the fee the registry is deployed with.
Fees == {0, 1}
InitialServiceFee == 1

\* An encrypted share is a byte string; Blob(k, n) is the k-th set of n
\* non-empty payloads, payload i being <<k, i>>.
Blob(k, n) == [i \in 1..n |-> <<k, i>>]
UpdatedShare == <<9>>

DataSets ==
    { Blob(1, 3),                            \* accepted
      Blob(1, 2),                            \* fewer than 3 shares
      Blob(1, 101),                          \* more than 100 shares
      [Blob(1, 3) EXCEPT ![2] = <<>>] }      \* an empty payload

Thresholds == {0, 1, 3, 4}
\* The payloads and thresholds handed to storeSharesFor: those the signatures
\* cover and one other of each.
StoreForData       == {Blob(1, 3), Blob(2, 3)}
StoreForThresholds == {1, 3}

Deadlines == {GenesisTime + THROTTLE_DURATION}

\* An EIP-712 signature is determined by its signer and the signed struct
\* StoreShares(user, threshold, dataHash, deadline).
Signatures ==
    [signer : {Alice, Bob}, user : {Alice}, threshold : {3},
     data : {Blob(1, 3)}, deadline : Deadlines]

\* digest.recover(signature): the signer when the signature is over this
\* digest; for any other digest an address nobody controls.
Recover(digest, signature) ==
    IF digest = <<signature.user, signature.threshold, signature.data, signature.deadline>>
    THEN signature.signer
    ELSE "0xgarbage"

NoConfig ==
    [totalShares |-> 0, threshold |-> 0, creationTime |-> 0,
     isActive |-> FALSE, configHash |-> <<>>]

NoRequest ==
    [initiator |-> Zero, requestTime |-> 0, expiresAt |-> 0,
     requestHash |-> <<>>, isActive |-> FALSE]

NoCount == [ticks |-> 0, stores |-> 0]

\* No reverted call on record: n reverted calls in a row, the first of them at
\* time since and the last at time at.
NoFailures == [n |-> 0, since |-> 0, at |-> 0]

\* A behaviour is explored within one scope: besides the registry's user
\* transactions it changes administrative settings, or reads shares, or has
\* the owner change custodians directly.
Scopes ==
    { [settings |-> MaxSettings, access |-> 0, direct |-> 0],
      [settings |-> 0, access |-> MaxAccess, direct |-> 0],
      [settings |-> 0, access |-> 0, direct |-> MaxDirect] }

-----------------------------------------------------------------------------
(* SecureShareRegistry: views and internal functions                       *)

\* hasShares without the isActive test: a revoked config still counts.
hasShares_ignoringActive(user) ==
    shareConfigs[user].totalShares > 0

\* hasShares(user)
hasShares(user) ==
    shareConfigs[user].totalShares > 0 /\ shareConfigs[user].isActive

\* isRecoveryAddress(user, recoveryAddr)
isRecoveryAddress(user, recoveryAddr) ==
    \E i \in 1..Len(recoveryAddresses[user]) : recoveryAddresses[user][i] = recoveryAddr

\* isAuthorizedForShare without the clause for the initiator of an expired
\* recovery request.
isAuthorizedForShare_noInitiator(owner, accessor) ==
    \/ owner = accessor
    \/ isRecoveryAddress(owner, accessor)
    \/ emergencyContacts[owner] = accessor

\* isAuthorizedForShare(owner, accessor)
isAuthorizedForShare(owner, accessor) ==
    \/ owner = accessor
    \/ isRecoveryAddress(owner, accessor)
    \/ emergencyContacts[owner] = accessor
    \/ /\ recoveryRequests[owner].isActive
       /\ recoveryRequests[owner].initiator = accessor
       /\ now >= recoveryRequests[owner].expiresAt

\* _checkBlacklist(account)
NotBlacklisted(account) == account \in DOMAIN blacklisted => ~blacklisted[account]

\* _throttleRequests(account): [ok: every require passes,
\*                              failed: failedAttempts[account] afterwards]
throttleRequests(account) ==
    IF account = Admin
    THEN [ok |-> TRUE, failed |-> failedAttempts[account]]
    ELSE LET elapsed == now - lastActionTimestamp[account]
             f1 == IF elapsed > COOLDOWN_DURATION THEN 0 ELSE failedAttempts[account]
             locked == f1 >= MAX_FAILED_ATTEMPTS /\ ~(elapsed > LOCKOUT_DURATION)
             f2 == IF f1 >= MAX_FAILED_ATTEMPTS THEN 0 ELSE f1
         IN  [ok |-> ~locked /\ elapsed >= THROTTLE_DURATION, failed |-> f2]

-----------------------------------------------------------------------------
(* SecureShareContract (the custodian of one encrypted share)              *)

\* constructor(_owner, _registry, _encryptedShare)
NewShareContract(owner, registry, encryptedShare) ==
    [owner |-> owner, registry |-> registry, encryptedShare |-> encryptedShare,
     isActive |-> TRUE, lastAccessed |-> 0, accessCount |-> 0,
     lastAccessByAddress |-> [a \in Addr |-> 0]]

ShareConstructorOk(owner, registry, encryptedShare) ==
    owner # Zero /\ registry # Zero /\ Len(encryptedShare) > 0

\* getShare(): the authorization decided at lines 72-81
ShareAuthorized(c, sender) ==
    \/ sender = custodians[c].owner
    \/ isAuthorizedForShare(custodians[c].owner, sender)

\* getShare() without the "Access too frequent" require.
ShareGetShareOk_noRateLimit(c, sender) ==
    /\ custodians[c].isActive
    /\ ShareAuthorized(c, sender)

\* getShare(): every require of the call passes for msg.sender = sender
ShareGetShareOk(c, sender) ==
    /\ custodians[c].isActive
    /\ ShareAuthorized(c, sender)
    /\ (sender # custodians[c].owner
          => now - custodians[c].lastAccessByAddress[sender] >= ACCESS_INTERVAL)

\* getShare(): the access records after a successful call
ShareAccessed(cs, c, sender) ==
    [cs EXCEPT ![c] = [@ EXCEPT !.lastAccessed = now,
                                !.lastAccessByAddress[sender] = now,
                                !.accessCount = @ + 1]]

\* modifier onlyOwnerOrRegistry
onlyOwnerOrRegistry(c, sender) ==
    sender = custodians[c].owner \/ sender = custodians[c].registry

\* A revocation loop that starts one entry late: the custodian with the lowest
\* address of the set is left active.
Deactivated_skipFirst(cs, cset) ==
    [c \in DOMAIN cs |->
        IF c \in cset /\ \E d \in cset : d < c
        THEN [cs[c] EXCEPT !.isActive = FALSE] ELSE cs[c]]

\* deactivate(), applied to every custodian of the set cset
Deactivated(cs, cset) ==
    [c \in DOMAIN cs |-> IF c \in cset THEN [cs[c] EXCEPT !.isActive = FALSE] ELSE cs[c]]

\* Bounds of the exploration, read off the state: the number of getShare calls
\* that succeeded, and the number of custodians of a current configuration that
\* their owner deactivated or updated directly.
\* The custodians the latest store of a user deployed: a store appends its
\* totalShares addresses to userShares[user].
CreatedByLastStore(user) ==
    LET n == Len(userShares[user])
    IN  {userShares[user][i] : i \in (n - shareConfigs[user].totalShares + 1)..n}

RECURSIVE SumAccess(_, _)
SumAccess(cs, k) == IF k = 0 THEN 0 ELSE cs[k].accessCount + SumAccess(cs, k - 1)
TotalAccess == SumAccess(custodians, Len(custodians))

DirectChanges ==
    Cardinality({c \in DOMAIN custodians :
        \/ custodians[c].encryptedShare = UpdatedShare
        \/ /\ ~custodians[c].isActive
           /\ shareConfigs[custodians[c].owner].isActive
           /\ c \in CreatedByLastStore(custodians[c].owner)})

\* Direct call of getShare() on custodian c by an account.
Share_getShare(c, sender) ==
    /\ TotalAccess < scope.access
    /\ ShareGetShareOk(c, sender)
    /\ custodians' = ShareAccessed(custodians, c, sender)
    /\ UNCHANGED <<scope, shamirVars, cryptoVars, serviceVars, now, registryVars, usedSignatures, lastCall, failures, count>>

\* Direct call of deactivate() on custodian c by an account.
Share_deactivate(c, sender) ==
    /\ onlyOwnerOrRegistry(c, sender)
    /\ custodians' = Deactivated(custodians, {c})
    /\ UNCHANGED <<scope, shamirVars, cryptoVars, serviceVars, now, registryVars, usedSignatures, lastCall, failures, count>>
    /\ DirectChanges' <= scope.direct

\* Direct call of updateShare(_newEncryptedShare) on custodian c by an account.
Share_updateShare(c, sender, newEncryptedShare) ==
    /\ onlyOwnerOrRegistry(c, sender)
    /\ custodians[c].isActive
    /\ Len(newEncryptedShare) > 0
    /\ custodians' = [custodians EXCEPT ![c].encryptedShare = newEncryptedShare]
    /\ UNCHANGED <<scope, shamirVars, cryptoVars, serviceVars, now, registryVars, usedSignatures, lastCall, failures, count>>
    /\ DirectChanges' <= scope.direct

-----------------------------------------------------------------------------
(* SecureShareRegistry: transactions                                       *)

\* The custodian addresses a store of n shares deploys.
NewShareContracts(n) == [i \in 1..n |-> Len(custodians) + i]

\* Every require of storeShares passes (the fee collector accepts the fee).
StoreSharesOk(sender, encryptedShareData, threshold, value) ==
    /\ ~paused
    /\ NotBlacklisted(sender)
    /\ throttleRequests(sender).ok
    /\ (~feeExemptions[sender] => value >= serviceFee)
    /\ threshold > 0 /\ threshold <= Len(encryptedShareData)
    /\ Len(encryptedShareData) >= MIN_SHARES
    /\ Len(encryptedShareData) <= MAX_SHARES
    /\ ~hasShares(sender)
    /\ \A i \in 1..Len(encryptedShareData) :
          ShareConstructorOk(sender, Registry, encryptedShareData[i])

\* Lines 357-395 and 467-505: deploy one custodian per share, append its
\* address to userShares[user], record the ShareConfig.
StoreEffects(user, encryptedShareData, threshold) ==
    LET n == Len(encryptedShareData)
        shareContracts == NewShareContracts(n)
    IN  /\ custodians' = custodians \o
              [i \in 1..n |-> NewShareContract(user, Registry, encryptedShareData[i])]
        /\ userShares' = [userShares EXCEPT ![user] = @ \o shareContracts]
        /\ shareConfigs' = [shareConfigs EXCEPT ![user] =
              [totalShares |-> n, threshold |-> threshold, creationTime |-> now,
               isActive |-> TRUE,
               configHash |-> <<user, n, threshold, now, shareContracts>>]]

\* storeShares(encryptedShareData, threshold) payable
storeShares(sender, encryptedShareData, threshold, value) ==
    /\ count.stores < MaxStores
    /\ StoreSharesOk(sender, encryptedShareData, threshold, value)
    /\ StoreEffects(sender, encryptedShareData, threshold)
    /\ failedAttempts' = [failedAttempts EXCEPT ![sender] = throttleRequests(sender).failed]
    /\ lastActionTimestamp' = [lastActionTimestamp EXCEPT ![sender] = now]
    /\ count' = [count EXCEPT !.stores = @ + 1]
    /\ lastCall' = [lastCall EXCEPT ![sender] = now]
    /\ failures' = [failures EXCEPT ![sender] = NoFailures]
    /\ UNCHANGED <<scope, shamirVars, cryptoVars, serviceVars, now, paused, serviceFee, recoveryAddresses,
                   emergencyContacts, recoveryRequests, blacklisted, feeExemptions,
                   usedSignatures>>

\* storeSharesFor without the "User already has active shares" require.
StoreSharesForOk_noActiveCheck(sender, user, encryptedShareData, threshold, deadline, signature, value) ==
    /\ ~paused
    /\ now <= deadline
    /\ NotBlacklisted(user)
    /\ NotBlacklisted(sender)
    /\ throttleRequests(sender).ok
    /\ (~feeExemptions[user] /\ ~feeExemptions[sender] => value >= serviceFee)
    /\ threshold > 0 /\ threshold <= Len(encryptedShareData)
    /\ Len(encryptedShareData) >= MIN_SHARES
    /\ Len(encryptedShareData) <= MAX_SHARES
    /\ Recover(<<user, threshold, encryptedShareData, deadline>>, signature) = user
    /\ \A i \in 1..Len(encryptedShareData) :
          ShareConstructorOk(user, Registry, encryptedShareData[i])

\* Every require of storeSharesFor passes.
StoreSharesForOk(sender, user, encryptedShareData, threshold, deadline, signature, value) ==
    /\ ~paused
    /\ now <= deadline
    /\ NotBlacklisted(user)
    /\ NotBlacklisted(sender)
    /\ throttleRequests(sender).ok
    /\ (~feeExemptions[user] /\ ~feeExemptions[sender] => value >= serviceFee)
    /\ threshold > 0 /\ threshold <= Len(encryptedShareData)
    /\ Len(encryptedShareData) >= MIN_SHARES
    /\ Len(encryptedShareData) <= MAX_SHARES
    /\ ~hasShares(user)
    /\ Recover(<<user, threshold, encryptedShareData, deadline>>, signature) = user
    /\ \A i \in 1..Len(encryptedShareData) :
          ShareConstructorOk(user, Registry, encryptedShareData[i])

\* storeSharesFor(user, encryptedShareData, threshold, deadline, signature) payable
storeSharesFor(sender, user, encryptedShareData, threshold, deadline, signature, value) ==
    /\ count.stores < MaxStores
    /\ StoreSharesForOk(sender, user, encryptedShareData, threshold, deadline,
                        signature, value)
    /\ StoreEffects(user, encryptedShareData, threshold)
    /\ failedAttempts' = [failedAttempts EXCEPT ![sender] = throttleRequests(sender).failed]
    /\ lastActionTimestamp' = [lastActionTimestamp EXCEPT ![user] = now]
    /\ usedSignatures' = usedSignatures \cup {signature}
    /\ count' = [count EXCEPT !.stores = @ + 1]
    /\ lastCall' = [lastCall EXCEPT ![sender] = now]
    /\ failures' = [failures EXCEPT ![sender] = NoFailures]
    /\ UNCHANGED <<scope, shamirVars, cryptoVars, serviceVars, now, paused, serviceFee, recoveryAddresses,
                   emergencyContacts, recoveryRequests, blacklisted, feeExemptions>>

\* The set of custodian addresses listed for a user.
UserShareSet(user) == {userShares[user][i] : i \in 1..Len(userShares[user])}

\* A revokeShares that also closes the caller's recovery request.
revokeShares_closingRequest(sender) ==
    /\ hasShares(sender)
    /\ custodians' = Deactivated(custodians, UserShareSet(sender))
    /\ shareConfigs' = [shareConfigs EXCEPT ![sender].isActive = FALSE]
    /\ recoveryRequests' = [recoveryRequests EXCEPT ![sender].isActive = FALSE]
    /\ lastActionTimestamp' = [lastActionTimestamp EXCEPT ![sender] = now]
    /\ failures' = [failures EXCEPT ![sender] = NoFailures]
    /\ UNCHANGED <<scope, shamirVars, cryptoVars, serviceVars, now, paused, serviceFee, userShares, recoveryAddresses,
                   emergencyContacts, blacklisted, feeExemptions,
                   failedAttempts, usedSignatures, lastCall, count>>

\* revokeShares()
revokeShares(sender) ==
    /\ hasShares(sender)
    /\ custodians' = Deactivated(custodians, UserShareSet(sender))
    /\ shareConfigs' = [shareConfigs EXCEPT ![sender].isActive = FALSE]
    /\ lastActionTimestamp' = [lastActionTimestamp EXCEPT ![sender] = now]
    /\ failures' = [failures EXCEPT ![sender] = NoFailures]
    /\ UNCHANGED <<scope, shamirVars, cryptoVars, serviceVars, now, paused, serviceFee, userShares, recoveryAddresses,
                   emergencyContacts, recoveryRequests, blacklisted, feeExemptions,
                   failedAttempts, usedSignatures, lastCall, count>>

\* The custodian SecureShareRegistry.getShare(user, index) calls:
\* userShares[user][index], index counted from 0.
ShareAt(user, index) == userShares[user][index + 1]

\* Every require of SecureShareRegistry.getShare passes, those of the nested
\* SecureShareContract.getShare() included; there msg.sender is the registry.
RegistryGetShareOk(sender, user, index) ==
    /\ hasShares(user)
    /\ index < shareConfigs[user].totalShares
    /\ (sender # user => throttleRequests(sender).ok)
    /\ ShareGetShareOk(ShareAt(user, index), Registry)

\* getShare(user, index)
getShare(sender, user, index) ==
    /\ TotalAccess < scope.access
    /\ RegistryGetShareOk(sender, user, index)
    /\ failedAttempts' =
          IF sender # user
          THEN [failedAttempts EXCEPT ![sender] = throttleRequests(sender).failed]
          ELSE failedAttempts
    /\ custodians' = ShareAccessed(custodians, ShareAt(user, index), Registry)
    /\ lastCall' = IF sender # user THEN [lastCall EXCEPT ![sender] = now] ELSE lastCall
    /\ failures' = [failures EXCEPT ![sender] = NoFailures]
    /\ UNCHANGED <<scope, shamirVars, cryptoVars, serviceVars, now, paused, serviceFee, shareConfigs, userShares,
                   recoveryAddresses, emergencyContacts, recoveryRequests, blacklisted,
                   feeExemptions, lastActionTimestamp, usedSignatures, count>>

\* initiateRecovery without the "Recovery already initiated" require.
InitiateRecoveryOk_noConflictCheck(sender, user) ==
    /\ hasShares(user)
    /\ (sender = emergencyContacts[user] \/ isRecoveryAddress(user, sender))
    /\ throttleRequests(sender).ok

\* Every require of initiateRecovery passes.
InitiateRecoveryOk(sender, user) ==
    /\ hasShares(user)
    /\ (sender = emergencyContacts[user] \/ isRecoveryAddress(user, sender))
    /\ ~recoveryRequests[user].isActive
    /\ throttleRequests(sender).ok

\* initiateRecovery(user)
initiateRecovery(sender, user) ==
    /\ InitiateRecoveryOk(sender, user)
    /\ LET expiresAt == now + RECOVERY_LOCK
       IN  recoveryRequests' = [recoveryRequests EXCEPT ![user] =
              [initiator |-> sender, requestTime |-> now, expiresAt |-> expiresAt,
               requestHash |-> <<"RECOVERY_REQUEST", user, sender, now, expiresAt>>,
               isActive |-> TRUE]]
    /\ failedAttempts' = [failedAttempts EXCEPT ![sender] = throttleRequests(sender).failed]
    /\ lastActionTimestamp' = [lastActionTimestamp EXCEPT ![sender] = now]
    /\ lastCall' = [lastCall EXCEPT ![sender] = now]
    /\ failures' = [failures EXCEPT ![sender] = NoFailures]
    /\ UNCHANGED <<scope, shamirVars, cryptoVars, serviceVars, now, paused, serviceFee, shareConfigs, userShares,
                   recoveryAddresses, emergencyContacts, blacklisted, feeExemptions,
                   custodians, usedSignatures, count>>

\* cancelRecovery without the "Not authorized to cancel" require.
CancelRecoveryOk_anyone(sender, user) ==
    recoveryRequests[user].isActive

\* Every require of cancelRecovery passes.
CancelRecoveryOk(sender, user) ==
    /\ recoveryRequests[user].isActive
    /\ (sender = user \/ sender = recoveryRequests[user].initiator \/ sender = Admin)

\* cancelRecovery(user)
cancelRecovery(sender, user) ==
    /\ CancelRecoveryOk(sender, user)
    /\ recoveryRequests' = [recoveryRequests EXCEPT ![user].isActive = FALSE]
    /\ lastActionTimestamp' = [lastActionTimestamp EXCEPT ![sender] = now]
    /\ failures' = [failures EXCEPT ![sender] = NoFailures]
    /\ UNCHANGED <<scope, shamirVars, cryptoVars, serviceVars, now, paused, serviceFee, shareConfigs, userShares,
                   recoveryAddresses, emergencyContacts, blacklisted, feeExemptions,
                   failedAttempts, custodians, usedSignatures, lastCall, count>>

\* addRecoveryAddress without the "Too many recovery addresses" require.
AddRecoveryAddressOk_noLimit(sender, recoveryAddress) ==
    /\ recoveryAddress # Zero
    /\ recoveryAddress # sender
    /\ throttleRequests(sender).ok
    /\ NotBlacklisted(recoveryAddress)
    /\ ~isRecoveryAddress(sender, recoveryAddress)

\* Every require of addRecoveryAddress passes.
AddRecoveryAddressOk(sender, recoveryAddress) ==
    /\ recoveryAddress # Zero
    /\ recoveryAddress # sender
    /\ throttleRequests(sender).ok
    /\ NotBlacklisted(recoveryAddress)
    /\ ~isRecoveryAddress(sender, recoveryAddress)
    /\ Len(recoveryAddresses[sender]) < MAX_RECOVERY

\* addRecoveryAddress(recoveryAddress)
addRecoveryAddress(sender, recoveryAddress) ==
    /\ AddRecoveryAddressOk(sender, recoveryAddress)
    /\ recoveryAddresses' = [recoveryAddresses EXCEPT ![sender] = Append(@, recoveryAddress)]
    /\ failedAttempts' = [failedAttempts EXCEPT ![sender] = throttleRequests(sender).failed]
    /\ lastActionTimestamp' = [lastActionTimestamp EXCEPT ![sender] = now]
    /\ lastCall' = [lastCall EXCEPT ![sender] = now]
    /\ failures' = [failures EXCEPT ![sender] = NoFailures]
    /\ UNCHANGED <<scope, shamirVars, cryptoVars, serviceVars, now, paused, serviceFee, shareConfigs, userShares,
                   emergencyContacts, recoveryRequests, blacklisted, feeExemptions,
                   custodians, usedSignatures, count>>

\* Lines 686-700: the list with the first occurrence of recoveryAddress, at
\* position index, replaced by the last element, and the last element popped.
SwapAndPop(addresses, index) ==
    LET length == Len(addresses)
        moved == IF index < length
                 THEN [addresses EXCEPT ![index] = addresses[length]]
                 ELSE addresses
    IN  SubSeq(moved, 1, length - 1)

FirstIndexOf(addresses, a) ==
    CHOOSE i \in 1..Len(addresses) :
        addresses[i] = a /\ \A j \in 1..(i - 1) : addresses[j] # a

\* Every require of removeRecoveryAddress passes.
RemoveRecoveryAddressOk(sender, recoveryAddress) ==
    /\ throttleRequests(sender).ok
    /\ isRecoveryAddress(sender, recoveryAddress)

\* removeRecoveryAddress(recoveryAddress)
removeRecoveryAddress(sender, recoveryAddress) ==
    /\ RemoveRecoveryAddressOk(sender, recoveryAddress)
    /\ recoveryAddresses' = [recoveryAddresses EXCEPT ![sender] =
          SwapAndPop(@, FirstIndexOf(@, recoveryAddress))]
    /\ failedAttempts' = [failedAttempts EXCEPT ![sender] = throttleRequests(sender).failed]
    /\ lastActionTimestamp' = [lastActionTimestamp EXCEPT ![sender] = now]
    /\ lastCall' = [lastCall EXCEPT ![sender] = now]
    /\ failures' = [failures EXCEPT ![sender] = NoFailures]
    /\ UNCHANGED <<scope, shamirVars, cryptoVars, serviceVars, now, paused, serviceFee, shareConfigs, userShares,
                   emergencyContacts, recoveryRequests, blacklisted, feeExemptions,
                   custodians, usedSignatures, count>>

\* Every require of setEmergencyContact passes.
SetEmergencyContactOk(sender, contact) ==
    /\ contact # Zero
    /\ contact # sender
    /\ throttleRequests(sender).ok
    /\ NotBlacklisted(contact)

\* setEmergencyContact(contact)
setEmergencyContact(sender, contact) ==
    /\ SetEmergencyContactOk(sender, contact)
    /\ emergencyContacts' = [emergencyContacts EXCEPT ![sender] = contact]
    /\ failedAttempts' = [failedAttempts EXCEPT ![sender] = throttleRequests(sender).failed]
    /\ lastActionTimestamp' = [lastActionTimestamp EXCEPT ![sender] = now]
    /\ lastCall' = [lastCall EXCEPT ![sender] = now]
    /\ failures' = [failures EXCEPT ![sender] = NoFailures]
    /\ UNCHANGED <<scope, shamirVars, cryptoVars, serviceVars, now, paused, serviceFee, shareConfigs, userShares,
                   recoveryAddresses, recoveryRequests, blacklisted, feeExemptions,
                   custodians, usedSignatures, count>>

-----------------------------------------------------------------------------
(* SecureShareRegistry: administrative transactions (onlyOwner)            *)

\* Bound of the exploration: the number of settings (pause, fee, blacklist
\* entries, fee exemptions) that differ from their value at deployment.
SettingsChanged ==
    (IF paused THEN 1 ELSE 0) + (IF serviceFee # InitialServiceFee THEN 1 ELSE 0)
    + Cardinality({a \in Addr : blacklisted[a]})
    + Cardinality({a \in Addr : feeExemptions[a]})

AdminStep == SettingsChanged' <= scope.settings /\ UNCHANGED count

\* setServiceFee(newFee)
setServiceFee(sender, newFee) ==
    /\ sender = Admin
    /\ serviceFee' = newFee
    /\ failures' = [failures EXCEPT ![sender] = NoFailures]
    /\ UNCHANGED <<scope, shamirVars, cryptoVars, serviceVars, now, paused, shareConfigs, userShares, recoveryAddresses,
                   emergencyContacts, recoveryRequests, blacklisted, feeExemptions,
                   lastActionTimestamp, failedAttempts, custodians, usedSignatures, lastCall>>
    /\ AdminStep

\* setBlacklistStatus(account, isBlacklisted)
setBlacklistStatus(sender, account, isBlacklisted) ==
    /\ sender = Admin
    /\ blacklisted' = [blacklisted EXCEPT ![account] = isBlacklisted]
    /\ failures' = [failures EXCEPT ![sender] = NoFailures]
    /\ UNCHANGED <<scope, shamirVars, cryptoVars, serviceVars, now, paused, serviceFee, shareConfigs, userShares,
                   recoveryAddresses, emergencyContacts, recoveryRequests, feeExemptions,
                   lastActionTimestamp, failedAttempts, custodians, usedSignatures, lastCall>>
    /\ AdminStep

\* setFeeExemption(account, exempt)
setFeeExemption(sender, account, exempt) ==
    /\ sender = Admin
    /\ feeExemptions' = [feeExemptions EXCEPT ![account] = exempt]
    /\ failures' = [failures EXCEPT ![sender] = NoFailures]
    /\ UNCHANGED <<scope, shamirVars, cryptoVars, serviceVars, now, paused, serviceFee, shareConfigs, userShares,
                   recoveryAddresses, emergencyContacts, recoveryRequests, blacklisted,
                   lastActionTimestamp, failedAttempts, custodians, usedSignatures, lastCall>>
    /\ AdminStep

\* pause() / unpause(): Pausable requires the opposite state
pause(sender) ==
    /\ sender = Admin
    /\ ~paused
    /\ paused' = TRUE
    /\ failures' = [failures EXCEPT ![sender] = NoFailures]
    /\ UNCHANGED <<scope, shamirVars, cryptoVars, serviceVars, now, serviceFee, shareConfigs, userShares,
                   recoveryAddresses, emergencyContacts, recoveryRequests, blacklisted,
                   feeExemptions, lastActionTimestamp, failedAttempts, custodians,
                   usedSignatures, lastCall>>
    /\ AdminStep

unpause(sender) ==
    /\ sender = Admin
    /\ paused
    /\ paused' = FALSE
    /\ failures' = [failures EXCEPT ![sender] = NoFailures]
    /\ UNCHANGED <<scope, shamirVars, cryptoVars, serviceVars, now, serviceFee, shareConfigs, userShares,
                   recoveryAddresses, emergencyContacts, recoveryRequests, blacklisted,
                   feeExemptions, lastActionTimestamp, failedAttempts, custodians,
                   usedSignatures, lastCall>>
    /\ AdminStep

\* resetFailedAttempts(account)
resetFailedAttempts(sender, account) ==
    /\ sender = Admin
    /\ failedAttempts' = [failedAttempts EXCEPT ![account] = 0]
    /\ failures' = [failures EXCEPT ![sender] = NoFailures]
    /\ UNCHANGED <<scope, shamirVars, cryptoVars, serviceVars, now, paused, serviceFee, shareConfigs, userShares,
                   recoveryAddresses, emergencyContacts, recoveryRequests, blacklisted,
                   feeExemptions, lastActionTimestamp, custodians, usedSignatures, lastCall,
                   count>>

\* emergencyCancelRecovery(user)
emergencyCancelRecovery(sender, user) ==
    /\ sender = Admin
    /\ recoveryRequests' = [recoveryRequests EXCEPT ![user].isActive = FALSE]
    /\ failures' = [failures EXCEPT ![sender] = NoFailures]
    /\ UNCHANGED <<scope, shamirVars, cryptoVars, serviceVars, now, paused, serviceFee, shareConfigs, userShares,
                   recoveryAddresses, emergencyContacts, blacklisted, feeExemptions,
                   lastActionTimestamp, failedAttempts, custodians, usedSignatures, lastCall,
                   count>>

-----------------------------------------------------------------------------
(* The ledger: time passes between transactions                            *)

Tick(d) ==
    /\ count.ticks < MaxTicks
    /\ now' = now + d
    /\ count' = [count EXCEPT !.ticks = @ + 1]
    /\ UNCHANGED <<scope, shamirVars, cryptoVars, serviceVars, registryVars, custodians, usedSignatures, lastCall, failures>>

-----------------------------------------------------------------------------
(* Specifications                                                          *)

\* Private keys drawn by the model: 64 hex digits whose value is below Prime.
KeyHexes ==
    {[i \in 1..KeyHexLen |-> IF i = KeyHexLen THEN d ELSE 0] : d \in 0..(Prime - 1)}

\* All sequences over S of length 1..n.
SeqsUpTo(S, n) == UNION {[1..k -> S] : k \in 1..n}

\* No split / reconstruct session is running.
ShamirIdle ==
    /\ sPc = "idle" /\ sKey = <<>> /\ sN = 0 /\ sT = 0 /\ sRand = <<>>
    /\ sShares = <<>> /\ sInput = <<>> /\ sOutput = [ok |-> FALSE, hex |-> <<>>]

\* No encryptShare / decryptShare session is running.
NoShare == [x |-> 0, y |-> <<>>]
NoBlob  == [prefix |-> FALSE, hex |-> <<>>]
CryptoIdle ==
    /\ cPc = "idle" /\ cSk = 0 /\ cShare = NoShare
    /\ cPayload = [x |-> 0, y |-> <<>>, metadata |-> NoMetadata]
    /\ cBlob = NoBlob /\ cTampered = FALSE
    /\ cResult = [ok |-> FALSE, share |-> NoShare]

\* No client-side procedure is running.
Idle == [pc |-> "idle"]
ServiceIdle == inverse = Idle /\ retry = Idle /\ wait = Idle /\ multi = Idle

\* The scope of a split / reconstruct session: no registry traffic at all.
NoScope == [settings |-> 0, access |-> 0, direct |-> 0]

\* The registry right after its constructor ran, nothing stored yet.
RegistryDeployed ==
    /\ now = GenesisTime
    /\ paused = FALSE
    /\ serviceFee = InitialServiceFee
    /\ shareConfigs = [a \in Addr |-> NoConfig]
    /\ userShares = [a \in Addr |-> <<>>]
    /\ recoveryAddresses = [a \in Addr |-> <<>>]
    /\ emergencyContacts = [a \in Addr |-> Zero]
    /\ recoveryRequests = [a \in Addr |-> NoRequest]
    /\ blacklisted = [a \in Addr |-> FALSE]
    /\ feeExemptions = [a \in Addr |-> FALSE]
    /\ lastActionTimestamp = [a \in Addr |-> 0]
    /\ failedAttempts = [a \in Addr |-> 0]
    /\ custodians = <<>>
    /\ usedSignatures = {}
    /\ lastCall = [a \in Addr |-> 0]
    /\ failures = [a \in Addr |-> NoFailures]
    /\ count = NoCount

Init == ShamirIdle /\ CryptoIdle /\ ServiceIdle /\ RegistryDeployed /\ scope \in Scopes

Next ==
    \/ \E d \in TickSteps : Tick(d)
    \/ \E s \in Owners, data \in DataSets, t \in Thresholds, v \in Fees :
          storeShares(s, data, t, v)
    \/ \E s \in Submitters, sig \in Signatures, u \in Owners,
          data \in StoreForData, t \in StoreForThresholds, dl \in Deadlines, v \in Fees :
          storeSharesFor(s, u, data, t, dl, sig, v)
    \/ \E s \in Senders : revokeShares(s)
    \/ \E s \in Senders, u \in Owners, i \in Indices : getShare(s, u, i)
    \/ \E s \in Senders, u \in Owners : initiateRecovery(s, u)
    \/ \E s \in Cancellers, u \in Owners : cancelRecovery(s, u)
    \/ \E s \in Managers, a \in Candidates : addRecoveryAddress(s, a)
    \/ \E s \in Managers, a \in Candidates : removeRecoveryAddress(s, a)
    \/ \E s \in Managers, a \in Contacts : setEmergencyContact(s, a)
    \/ \E s \in Senders, f \in Fees : setServiceFee(s, f)
    \/ \E s \in Senders, b \in BOOLEAN : setBlacklistStatus(s, Bob, b)
    \/ \E s \in Senders, b \in BOOLEAN : setFeeExemption(s, Alice, b)
    \/ \E s \in Senders : pause(s)
    \/ \E s \in Senders : unpause(s)
    \/ \E s \in Senders, a \in Owners : resetFailedAttempts(s, a)
    \/ \E s \in Senders, u \in Owners : emergencyCancelRecovery(s, u)
    \/ \E c \in DOMAIN custodians \cap DirectTargets, s \in Senders : Share_getShare(c, s)
    \/ \E c \in DOMAIN custodians \cap DirectTargets, s \in Senders : Share_deactivate(c, s)
    \/ \E c \in DOMAIN custodians \cap DirectTargets, s \in Senders :
          Share_updateShare(c, s, UpdatedShare)

Spec == Init /\ [][Next]_vars

InitShamir ==
    /\ sPc = "start"
    /\ sKey \in KeyHexes
    /\ sN \in 2..MaxN
    /\ sT \in 2..sN
    /\ sRand \in [1..(sT - 1) -> 0..(Prime - 1)]
    /\ sShares = <<>> /\ sInput = <<>> /\ sOutput = [ok |-> FALSE, hex |-> <<>>]
    /\ CryptoIdle
    /\ ServiceIdle
    /\ RegistryDeployed
    /\ scope = NoScope

Split ==
    /\ sPc = "start"
    /\ ValidInputs(sKey, sN, sT)
    /\ sShares' = generateShares(sKey, sN, sT, sRand)
    /\ sPc' = "split"
    /\ UNCHANGED <<sKey, sN, sT, sRand, sInput, sOutput>>
    /\ UNCHANGED <<cryptoVars, serviceVars, now, registryVars, custodians, usedSignatures, lastCall, failures, count, scope>>

Reconstruct ==
    /\ sPc = "split"
    /\ \E pick \in SeqsUpTo(1..sN, sN) :
          /\ sInput' = [k \in 1..Len(pick) |-> sShares[pick[k]]]
          /\ sOutput' = reconstructSecret(sInput')
    /\ sPc' = "done"
    /\ UNCHANGED <<sKey, sN, sT, sRand, sShares>>
    /\ UNCHANGED <<cryptoVars, serviceVars, now, registryVars, custodians, usedSignatures, lastCall, failures, count, scope>>

NextShamir == Split \/ Reconstruct

SpecShamir == InitShamir /\ [][NextShamir]_vars

\* Inputs of the encryption sessions: recipient keys, the ephemeral key and
\* the IVs EccService.encrypt draws, Date.now(), and the shares encrypted.
PrivateKeys   == {2, 3}
EphemeralKeys == {5}
Ivs           == {[i \in 1..IV_SIZE |-> 0], [i \in 1..IV_SIZE |-> IF i = IV_SIZE THEN 9 ELSE 0]}
Timestamps    == {1}
CryptoShares  == {[x |-> 1, y |-> <<7>>], [x |-> 2, y |-> <<1, 0>>]}

\* Payloads a sender can encrypt to the recipient with EccService.encrypt
\* directly: the share with a wrong checksum, and the share with no metadata.
ForeignPayloads(share) ==
    { [x |-> share.x, y |-> share.y,
       metadata |-> [present |-> TRUE, timestamp |-> 1,
                     checksum |-> computeShareChecksum([x |-> share.x + 1, y |-> share.y])]],
      [x |-> share.x, y |-> share.y, metadata |-> NoMetadata] }

\* The values a changed byte takes.
ByteChanges == {1, 128}

InitCrypto ==
    /\ cPc = "start"
    /\ cSk \in PrivateKeys
    /\ cShare \in CryptoShares
    /\ cPayload = [x |-> 0, y |-> <<>>, metadata |-> NoMetadata]
    /\ cBlob = NoBlob /\ cTampered = FALSE
    /\ cResult = [ok |-> FALSE, share |-> NoShare]
    /\ ShamirIdle
    /\ ServiceIdle
    /\ RegistryDeployed
    /\ scope = NoScope

\* encryptShare(publicKey of the recipient, share)
EncryptShare ==
    /\ cPc = "start"
    /\ \E timestamp \in Timestamps, e \in EphemeralKeys, iv \in Ivs :
          /\ cPayload' = EnrichedShare(cShare, timestamp)
          /\ cBlob' = encryptShare(bytesToHex(getPublicKey(cSk)), cShare, timestamp, e, iv)
    /\ cPc' = "sealed"
    /\ UNCHANGED <<cSk, cShare, cTampered, cResult>>
    /\ UNCHANGED <<shamirVars, serviceVars, now, registryVars, custodians, usedSignatures, lastCall, failures, count, scope>>

\* A sender encrypts a payload of its own making to the recipient:
\* formatForContract(EccService.encrypt(publicKey, JSON.stringify(payload))).
EncryptPayload ==
    /\ cPc = "start"
    /\ \E payload \in ForeignPayloads(cShare), e \in EphemeralKeys, iv \in Ivs :
          /\ cPayload' = payload
          /\ cBlob' = formatForContract(
                EccEncrypt(bytesToHex(getPublicKey(cSk)), JSONstringify(payload), e, iv))
    /\ cPc' = "sealed"
    /\ UNCHANGED <<cSk, cShare, cTampered, cResult>>
    /\ UNCHANGED <<shamirVars, serviceVars, now, registryVars, custodians, usedSignatures, lastCall, failures, count, scope>>

\* One byte of the stored blob is changed.
Tamper ==
    /\ cPc = "sealed" /\ ~cTampered
    /\ \E k \in 1..(Len(cBlob.hex) \div 2), d \in ByteChanges :
          LET bytes   == hexToBytes(cBlob.hex)
              changed == [bytes EXCEPT ![k] = (@ + d) % 256]
          IN  cBlob' = [cBlob EXCEPT !.hex = bytesToHex(changed)]
    /\ cTampered' = TRUE
    /\ UNCHANGED <<cPc, cSk, cShare, cPayload, cResult>>
    /\ UNCHANGED <<shamirVars, serviceVars, now, registryVars, custodians, usedSignatures, lastCall, failures, count, scope>>

\* decryptShare(private key of the recipient, blob)
DecryptShare ==
    /\ cPc = "sealed"
    /\ cResult' = decryptShare(cSk, cBlob)
    /\ cPc' = "done"
    /\ UNCHANGED <<cSk, cShare, cPayload, cBlob, cTampered>>
    /\ UNCHANGED <<shamirVars, serviceVars, now, registryVars, custodians, usedSignatures, lastCall, failures, count, scope>>

NextCrypto == EncryptShare \/ EncryptPayload \/ Tamper \/ DecryptShare

SpecCrypto == InitCrypto /\ [][NextCrypto]_vars

\* Reading shares repeatedly: the transactions that set up a config and a
\* recovery address, and getShare on every custodian and through the registry.
MaxReads    == 2
AccessTicks == {60, THROTTLE_DURATION}
AccessScope == [settings |-> 0, access |-> MaxReads, direct |-> 0]

InitAccess == ShamirIdle /\ CryptoIdle /\ ServiceIdle /\ RegistryDeployed /\ scope = AccessScope

NextAccess ==
    \/ \E d \in AccessTicks : Tick(d)
    \/ \E s \in Owners, v \in Fees : storeShares(s, Blob(1, 3), 3, v)
    \/ \E s \in Managers, a \in Candidates : addRecoveryAddress(s, a)
    \/ \E s \in Senders, u \in Owners, i \in Indices : getShare(s, u, i)
    \/ \E c \in DOMAIN custodians, s \in Senders : Share_getShare(c, s)

SpecAccess == InitAccess /\ [][NextAccess]_vars

\* storeShares(encryptedShareData, threshold) payable, when one of its
\* requires fails: the transaction reverts and the registry's storage is as
\* before. The history records one more reverted call of msg.sender.
storeShares_reverted(sender, encryptedShareData, threshold, value) ==
    /\ failures[sender].n < MaxFailures
    /\ ~StoreSharesOk(sender, encryptedShareData, threshold, value)
    /\ failures' = [failures EXCEPT ![sender] =
          [n |-> @.n + 1, since |-> IF @.n = 0 THEN now ELSE @.since, at |-> now]]
    /\ UNCHANGED <<scope, shamirVars, cryptoVars, serviceVars, now, registryVars, custodians,
                   usedSignatures, lastCall, count>>

\* Calls that fail: the accounts that call storeShares with and without
\* acceptable arguments, while minutes or the lockout hour pass.
LockoutCallers == {Alice, Bob}
LockoutTicks   == {THROTTLE_DURATION, LOCKOUT_DURATION}
LockoutData    == {Blob(1, 3), Blob(1, 2)}

InitLockout == ShamirIdle /\ CryptoIdle /\ ServiceIdle /\ RegistryDeployed /\ scope = NoScope

NextLockout ==
    \/ \E d \in LockoutTicks : Tick(d)
    \/ \E s \in LockoutCallers, data \in LockoutData, v \in Fees :
          storeShares_reverted(s, data, Len(data), v)
    \/ \E s \in LockoutCallers, data \in LockoutData, v \in Fees :
          storeShares(s, data, Len(data), v)

SpecLockout == InitLockout /\ [][NextLockout]_vars

\* Managing a recovery list up to its limit: besides the accounts of the
\* ledger model, addresses that are only ever named as recovery addresses
\* (no entry of any mapping is ever written for them).
Friends == <<"f1", "f2", "f3", "f4", "f5", "f6", "f7", "f8", "f9", "f10">>
\* The account whose list grows to the limit: the one account that
\* _throttleRequests lets act repeatedly within one block time.
ListManager == Admin
\* The addresses it names when it adds: the zero address, itself, the accounts
\* of the ledger model, and the friend that follows the entries listed so far.
ListCandidates ==
    {Zero, ListManager, Alice, Bob} \cup
    {Friends[k] : k \in {Len(recoveryAddresses[ListManager]) + 1} \cap DOMAIN Friends}
\* The addresses it names when it removes.
ListRemovals == {Zero, Bob, Friends[1]}
ListScope == [settings |-> MaxSettings, access |-> 0, direct |-> 0]

InitRecovery == ShamirIdle /\ CryptoIdle /\ ServiceIdle /\ RegistryDeployed /\ scope = ListScope

NextRecovery ==
    \/ \E a \in ListCandidates : addRecoveryAddress(ListManager, a)
    \/ \E a \in ListRemovals : removeRecoveryAddress(ListManager, a)
    \/ \E s \in Senders, b \in BOOLEAN : setBlacklistStatus(s, Bob, b)

SpecRecovery == InitRecovery /\ [][NextRecovery]_vars

\* Everything but the client-side procedures: the state in which one of them
\* is studied on its own.
NothingElse == ShamirIdle /\ CryptoIdle /\ RegistryDeployed /\ scope = NoScope
restVars == <<shamirVars, cryptoVars, now, registryVars, custodians, usedSignatures,
              lastCall, failures, count, scope>>

\* modInverse(a, m) with the number of iterations of its while loop.
ModInverseRun(a, m) ==
    [result |-> modInverse(a, m), steps |-> EuclidLoop(a, m, 1, 0, 0).steps]

\* Two calls of modInverse(a, Prime), on operands a and b.
InitInverse ==
    /\ inverse \in [pc : {"start"}, a : 1..(Prime - 1), b : 1..(Prime - 1)]
    /\ retry = Idle /\ wait = Idle /\ multi = Idle
    /\ NothingElse

ModInverseTwice ==
    /\ inverse.pc = "start"
    /\ inverse' = [pc |-> "done", a |-> inverse.a, b |-> inverse.b,
                   runA |-> ModInverseRun(inverse.a, Prime),
                   runB |-> ModInverseRun(inverse.b, Prime)]
    /\ UNCHANGED <<retry, wait, multi, restVars>>

NextInverse == ModInverseTwice

SpecInverse == InitInverse /\ [][NextInverse]_vars

\* SecureShareRegistryService.getMultipleShares(userAddress, indices).
\* userHasShares is what contract.hasShares(userAddress) answers; outcomes[k] is how
\* this.getShare(userAddress, indices[k]) ends: "ok", or the message of the
\* error it throws. The data of a fetched share is <<"share", index>>.
getMultipleShares(userHasShares, indices, outcomes) ==
    IF Len(indices) = 0 THEN [ok |-> FALSE, error |-> <<"Invalid indices array">>]
    ELSE IF ~userHasShares THEN [ok |-> FALSE, error |-> <<"has no shares">>]
    ELSE LET results == [k \in 1..Len(indices) |->
                            IF outcomes[k] = "ok"
                            THEN [index |-> indices[k], data |-> <<"share", indices[k]>>,
                                  success |-> TRUE]
                            ELSE [index |-> indices[k], error |-> outcomes[k],
                                  success |-> FALSE]]
             successfulRetrievals == SelectSeq(results, LAMBDA r : r.success)
         IN  IF Len(successfulRetrievals) = 0
             THEN [ok |-> FALSE,
                   error |-> <<"Failed to retrieve any shares">> \o
                             [k \in 1..Len(results) |-> <<results[k].index, results[k].error>>]]
             ELSE [ok |-> TRUE,
                   shares |-> [k \in 1..Len(successfulRetrievals) |->
                                 [index |-> successfulRetrievals[k].index,
                                  data |-> successfulRetrievals[k].data]]]

\* The calls of getMultipleShares the model makes: the owner's threshold, up
\* to MaxIndices requested indices, and the ways a getShare can end.
MaxIndices        == 3
MultiThresholds   == {2, 3}
RequestedIndices  == {0, 1, 2}
GetShareOutcomes  == {"ok", "Share is inactive", "Not authorized to access this share"}

InitMulti ==
    /\ multi \in [pc : {"start"}, hasShares : BOOLEAN, threshold : MultiThresholds,
                  indices : {<<>>} \cup SeqsUpTo(RequestedIndices, MaxIndices)]
    /\ inverse = Idle /\ retry = Idle /\ wait = Idle
    /\ NothingElse

GetMultipleShares ==
    /\ multi.pc = "start"
    /\ \E outcomes \in [1..Len(multi.indices) -> GetShareOutcomes] :
          multi' = [pc |-> "done", hasShares |-> multi.hasShares,
                    threshold |-> multi.threshold, indices |-> multi.indices,
                    outcomes |-> outcomes,
                    result |-> getMultipleShares(multi.hasShares, multi.indices, outcomes)]
    /\ UNCHANGED <<inverse, retry, wait, restVars>>

NextMulti == GetMultipleShares

SpecMulti == InitMulti /\ [][NextMulti]_vars

\* SecureShareRegistryService._sendTransactionWithRetry(txFunction, maxRetries).
\* An error is [code, message]; a message is its sequence of words, and
\* NoMessage stands for an error object without a message property.
NoMessage == <<"(undefined)">>

\* String.prototype.includes: phrase occurs in message as a contiguous run.
includes(message, phrase) ==
    \E k \in 0..(Len(message) - Len(phrase)) :
        \A j \in 1..Len(phrase) : message[k + j] = phrase[j]

\* Retrying on every error, whatever its kind.
shouldRetry_always(error) == TRUE

\* Lines 624-631: the errors after which the loop goes on.
shouldRetry(error) ==
    \/ error.code = "NETWORK_ERROR"
    \/ error.code = "TIMEOUT"
    \/ error.code = "SERVER_ERROR"
    \/ includes(error.message, <<"nonce">>)
    \/ includes(error.message, <<"underpriced">>)
    \/ includes(error.message, <<"replacement", "fee", "too", "low">>)

\* Reading error.message of an error without one, then calling includes on
\* it, throws a TypeError inside the catch block; the codes tested before it
\* short-circuit the read.
ReadsMissingMessage(error) ==
    /\ error.message = NoMessage
    /\ error.code \notin {"NETWORK_ERROR", "TIMEOUT", "SERVER_ERROR"}

TypeError == [code |-> "TypeError", message |-> <<"Cannot", "read", "properties", "of", "undefined">>]
Undefined == [code |-> "(undefined)", message |-> NoMessage]

\* The ways one invocation of txFunction ends: it resolves, or rejects with
\* one of these errors.
TxErrors ==
    { [code |-> "NETWORK_ERROR", message |-> <<"could", "not", "detect", "network">>],
      [code |-> "TIMEOUT", message |-> <<"timeout">>],
      [code |-> "SERVER_ERROR", message |-> NoMessage],
      [code |-> "NONCE_EXPIRED", message |-> <<"nonce", "has", "already", "been", "used">>],
      [code |-> "REPLACEMENT_UNDERPRICED", message |-> <<"replacement", "fee", "too", "low">>],
      [code |-> "UNKNOWN_ERROR", message |-> <<"transaction", "underpriced">>],
      [code |-> "CALL_EXCEPTION", message |-> <<"execution", "reverted">>],
      [code |-> "INSUFFICIENT_FUNDS", message |-> <<"fee", "too", "low", "for", "replacement">>],
      [code |-> "ACTION_REJECTED", message |-> NoMessage] }
TxOutcomes == {[ok |-> TRUE]} \cup {[ok |-> FALSE, error |-> e] : e \in TxErrors}

\* The retry budgets the callers pass (2 and 3) and smaller ones.
MaxRetriesValues == {-1, 0, 1, 2, 3}

InitRetry ==
    /\ retry \in [pc : {"loop"}, maxRetries : MaxRetriesValues, attempt : {1},
                  calls : {0}, lastError : {Undefined}, log : {<<>>}]
    /\ inverse = Idle /\ wait = Idle /\ multi = Idle
    /\ NothingElse

\* One pass through the body of the for loop: the delay before a repeated
\* attempt, the invocation of txFunction, and the catch block.
RetryAttempt(outcome) ==
    /\ retry.pc = "loop"
    /\ retry.attempt <= retry.maxRetries + 1
    /\ LET invoked == [retry EXCEPT !.calls = @ + 1, !.log = Append(@, outcome)]
       IN  retry' =
             IF outcome.ok
             THEN [pc |-> "returned", value |-> <<"tx", invoked.calls>>] @@ invoked
             ELSE IF ReadsMissingMessage(outcome.error)
             THEN [pc |-> "thrown", thrown |-> TypeError, lastError |-> outcome.error]
                      @@ invoked
             ELSE IF ~shouldRetry(outcome.error) \/ retry.attempt > retry.maxRetries
             THEN [pc |-> "thrown", thrown |-> outcome.error, lastError |-> outcome.error]
                      @@ invoked
             ELSE [attempt |-> retry.attempt + 1, lastError |-> outcome.error] @@ invoked
    /\ UNCHANGED <<inverse, wait, multi, restVars>>

\* The loop condition fails: `throw lastError`.
RetryLoopExit ==
    /\ retry.pc = "loop"
    /\ ~(retry.attempt <= retry.maxRetries + 1)
    /\ retry' = [pc |-> "thrown", thrown |-> retry.lastError] @@ retry
    /\ UNCHANGED <<inverse, wait, multi, restVars>>

NextRetry ==
    \/ \E outcome \in TxOutcomes : RetryAttempt(outcome)
    \/ RetryLoopExit

\* The event loop runs the pending continuation of the async function: the
\* timer of the delay fires and the promise of txFunction settles.
SpecRetry == InitRetry /\ [][NextRetry]_vars /\ WF_vars(NextRetry)

\* A mutating operation of SecureShareRegistryService from the moment its
\* transaction tx has been sent: _waitForTransactionWithTimeout(tx), then the
\* rest of the operation. The transaction is "pending" on the chain until a
\* block includes it, with status "success" or "reverted".
MutatingOperations ==
    {"storeShares", "addRecoveryAddress", "removeRecoveryAddress", "setEmergencyContact",
     "initiateRecovery", "cancelRecovery", "revokeShares"}

\* The block that includes the transaction in the model.
MinedBlock == 7

TimeoutError  == [code |-> "(undefined)",
                  message |-> <<"Transaction", "confirmation", "timed", "out">>]
CallException == [code |-> "CALL_EXCEPTION", message |-> <<"transaction", "execution", "reverted">>]
NetworkError  == [code |-> "NETWORK_ERROR", message |-> <<"could", "not", "detect", "network">>]

\* The receipt of a transaction in the given state of the chain; null while
\* it is pending.
NoReceipt == [found |-> FALSE]
ReceiptOf(chain) ==
    IF chain = "pending" THEN NoReceipt
    ELSE [found |-> TRUE, blockNumber |-> MinedBlock,
          status |-> IF chain = "success" THEN 1 ELSE 0]

\* How Promise.race([tx.wait(), timeoutPromise]) can settle in a state of the
\* chain: tx.wait() resolves with the receipt of a successful transaction and
\* rejects for a reverted one; the timer or a provider failure can come first.
RaceOutcomes(chain) ==
    {"timeout", "network"} \cup
    (IF chain = "success" THEN {"confirmed"} ELSE {}) \cup
    (IF chain = "reverted" THEN {"reverted"} ELSE {})

RaceError(outcome) ==
    IF outcome = "timeout" THEN TimeoutError
    ELSE IF outcome = "reverted" THEN CallException
    ELSE NetworkError

\* The catch block that reports the caught error without looking for a receipt.
CatchBlock_noRecheck(error, providerOk, chain) ==
    [returned |-> FALSE, error |-> error, queried |-> FALSE, receipt |-> NoReceipt]

\* Lines 665-678, the catch block: provider.getTransactionReceipt(tx.hash)
\* answers for the chain as it is now, or throws (providerOk false); a receipt
\* with a block number is returned, otherwise the caught error is rethrown.
CatchBlock(error, providerOk, chain) ==
    LET receipt == IF providerOk THEN ReceiptOf(chain) ELSE NoReceipt
    IN  IF providerOk /\ receipt.found /\ receipt.blockNumber # 0
        THEN [returned |-> TRUE, value |-> receipt, queried |-> TRUE, receipt |-> receipt]
        ELSE [returned |-> FALSE, error |-> error, queried |-> TRUE, receipt |-> receipt]

\* What the operation does with the result of the wait: it resolves with the
\* transaction hash when the wait returned (storeShares first reads the new
\* custodian addresses, which can fail), and rejects with the enhanced error
\* when it threw.
OperationEnds(operation, waited, readsOk) ==
    IF waited.returned /\ (operation = "storeShares" => readsOk)
    THEN "resolved" ELSE "rejected"

InitWait ==
    /\ wait \in [pc : {"race"}, operation : MutatingOperations, chain : {"pending"}]
    /\ inverse = Idle /\ retry = Idle /\ multi = Idle
    /\ NothingElse

\* A block includes the transaction.
Mine(status) ==
    /\ wait.pc \in {"race", "caught"}
    /\ wait.chain = "pending"
    /\ wait' = [wait EXCEPT !.chain = status]
    /\ UNCHANGED <<inverse, retry, multi, restVars>>

\* The race settles: the try block returns the receipt of tx.wait(), or the
\* catch block is entered with the rejection.
WaitRace(outcome, readsOk) ==
    /\ wait.pc = "race"
    /\ outcome \in RaceOutcomes(wait.chain)
    /\ wait' =
         IF outcome = "confirmed"
         THEN LET waited == [returned |-> TRUE, value |-> ReceiptOf(wait.chain),
                             queried |-> FALSE, receipt |-> NoReceipt]
              IN  [pc |-> "done", raced |-> outcome, waited |-> waited,
                   result |-> OperationEnds(wait.operation, waited, readsOk)] @@ wait
         ELSE [pc |-> "caught", raced |-> outcome] @@ wait
    /\ UNCHANGED <<inverse, retry, multi, restVars>>

\* The catch block runs, and the operation ends.
WaitCatch(providerOk, readsOk) ==
    /\ wait.pc = "caught"
    /\ LET waited == CatchBlock(RaceError(wait.raced), providerOk, wait.chain)
       IN  wait' = [pc |-> "done", waited |-> waited,
                    result |-> OperationEnds(wait.operation, waited, readsOk)] @@ wait
    /\ UNCHANGED <<inverse, retry, multi, restVars>>

NextWait ==
    \/ \E status \in {"success", "reverted"} : Mine(status)
    \/ \E outcome \in {"confirmed", "reverted", "timeout", "network"}, readsOk \in BOOLEAN :
          WaitRace(outcome, readsOk)
    \/ \E providerOk \in BOOLEAN, readsOk \in BOOLEAN : WaitCatch(providerOk, readsOk)

SpecWait == InitWait /\ [][NextWait]_vars

-----------------------------------------------------------------------------
(* Claims                                                                  *)

\* The x-coordinates of the shares handed to reconstructSecret.
InputXs == {sInput[i].x : i \in 1..Len(sInput)}

\* C1: for every secret, every 2 <= T <= N and every choice of T distinct
\* shares of generateShares(S, N, T), reconstructSecret returns exactly S.
C1_RoundTrip ==
    (sPc = "done" /\ Len(sInput) = sT /\ Cardinality(InputXs) = sT)
        => (sOutput.ok /\ sOutput.hex = sKey)

-----------------------------------------------------------------------------
(* Claims about the registry and the custodians                            *)

\* The custodians deployed for owner o, over all its stores.
CustodiansOf(o) == {c \in DOMAIN custodians : custodians[c].owner = o}

\* The share indices of o's current configuration, counted from 0.
ShareIndices(o) == 0..(shareConfigs[o].totalShares - 1)

\* a is the initiator of o's active recovery request and the lock still runs.
LockedInitiator(o, a) ==
    /\ recoveryRequests[o].isActive
    /\ recoveryRequests[o].initiator = a
    /\ now < recoveryRequests[o].expiresAt

\* C2: while a (a # o) is the initiator of o's active recovery request and the
\* 48 h lock has not expired, every getShare of a for a share of o fails, on
\* the custodian directly and through the registry.
C2_TimeLock ==
    \A o \in Owners : \A a \in Senders \ {o} :
        LockedInitiator(o, a) =>
            /\ \A c \in CustodiansOf(o) : ~ShareGetShareOk(c, a)
            /\ \A i \in ShareIndices(o) : ~RegistryGetShareOk(a, o, i)

\* The accessors the specification allows to read a share of o.
MayRead(o, a) ==
    \/ a = o
    \/ \E k \in 1..Len(recoveryAddresses[o]) : recoveryAddresses[o][k] = a
    \/ emergencyContacts[o] = a
    \/ /\ recoveryRequests[o].isActive
       /\ recoveryRequests[o].initiator = a
       /\ now >= recoveryRequests[o].expiresAt

\* C3: a getShare for a share of o, through the registry or directly on the
\* custodian, never returns the payload to an invoking address that is not o,
\* not a recovery address of o, not o's emergency contact and not the initiator
\* of o's active recovery request with the lock expired.
C3_NoUnauthorizedRetrieval ==
    \A o \in Owners, a \in Senders :
        /\ \A c \in CustodiansOf(o) : ShareGetShareOk(c, a) => MayRead(o, a)
        /\ \A i \in ShareIndices(o) : RegistryGetShareOk(a, o, i) => MayRead(o, a)

\* C4: when o has an active config, i < totalShares and the custodian at index
\* i is active, SecureShareRegistry.getShare(o, i) invoked by o succeeds.
C4_OwnerRetrieval ==
    \A o \in Owners :
        hasShares(o) =>
            \A i \in ShareIndices(o) :
                custodians[ShareAt(o, i)].isActive => RegistryGetShareOk(o, o, i)

\* The custodian addresses the store that created o's current config deployed,
\* as recorded in configHash = hash(owner, count, threshold, time, addresses).
DeployedByConfig(o) == shareConfigs[o].configHash[5]

\* C5: while o has an active config, the custodian list of o has exactly
\* totalShares entries and index i refers to the i-th custodian deployed by
\* the store that created this config. (That the custodian is still active is
\* left to C29.)
C5_OneCustodianPerShare ==
    \A o \in Owners :
        hasShares(o) =>
            /\ Len(userShares[o]) = shareConfigs[o].totalShares
            /\ \A i \in ShareIndices(o) : ShareAt(o, i) = DeployedByConfig(o)[i + 1]

\* Every account or contract that can call a custodian.
Callers == Senders \cup {Registry}

\* C6: a successful revokeShares by o leaves o's config inactive and every
\* custodian created for o inactive; getShare fails on an inactive custodian
\* for every caller, directly and through the registry; and no step makes an
\* inactive custodian active again.
C6_RevocationTerminal ==
    /\ [][\A o \in Senders :
            revokeShares(o) =>
                /\ ~shareConfigs'[o].isActive
                /\ \A c \in CustodiansOf(o) : ~custodians'[c].isActive]_vars
    /\ [][\A c \in DOMAIN custodians :
            ~custodians[c].isActive => ~custodians'[c].isActive]_vars
    /\ [](\A c \in DOMAIN custodians :
            ~custodians[c].isActive =>
                /\ \A a \in Callers : ~ShareGetShareOk(c, a)
                /\ \A a \in Senders, i \in Indices :
                      (hasShares(custodians[c].owner)
                         /\ i < Len(userShares[custodians[c].owner])
                         /\ ShareAt(custodians[c].owner, i) = c)
                      => ~RegistryGetShareOk(a, custodians[c].owner, i))

\* C6 witness: an owner revoked and stored again; the custodians of the
\* revoked generation are inactive next to the active config.
C6_Witness ==
    \E c \in DOMAIN custodians :
        /\ ~custodians[c].isActive
        /\ hasShares(custodians[c].owner)
        /\ c \notin CreatedByLastStore(custodians[c].owner)

\* o stored a config and revoked it.
Revoked(o) == shareConfigs[o].totalShares > 0 /\ ~shareConfigs[o].isActive

\* The preconditions C7 names: count, threshold, fee, blacklist, pause.
NamedStorePreconditions(o, data, t, v) ==
    /\ Len(data) >= 3 /\ Len(data) <= 100
    /\ t >= 2 /\ t <= Len(data)
    /\ (feeExemptions[o] \/ v >= serviceFee)
    /\ ~blacklisted[o]
    /\ ~paused

PastThrottle(o) == o = Admin \/ now - lastActionTimestamp[o] >= THROTTLE_DURATION

C8_SingleActiveConfig ==
    /\ [](\A o \in Owners :
            hasShares(o) =>
                /\ \A data \in DataSets, t \in Thresholds, v \in Fees :
                      ~StoreSharesOk(o, data, t, v)
                /\ \A s \in Senders, sig \in Signatures, data \in StoreForData,
                      t \in StoreForThresholds, dl \in Deadlines, v \in Fees :
                      ~StoreSharesForOk(s, o, data, t, dl, sig, v))
    /\ [][\A o \in Owners :
            hasShares(o) =>
                /\ userShares'[o] = userShares[o]
                /\ shareConfigs'[o] \in
                      {shareConfigs[o], [shareConfigs[o] EXCEPT !.isActive = FALSE]}
                /\ \A c \in CustodiansOf(o) :
                      custodians'[c].owner = o]_vars

\* C8 witness: o has an active config and is otherwise in a position to
\* store: not paused, not blacklisted, past the throttle, and a signature of
\* o for a delegated store is still within its deadline.
C8_Witness ==
    \E o \in Owners :
        /\ hasShares(o)
        /\ ~paused /\ ~blacklisted[o] /\ PastThrottle(o)
        /\ \E sig \in Signatures : sig.signer = o /\ now <= sig.deadline

\* C9: a signature authorizes at most one successful storeSharesFor: no
\* storeSharesFor succeeds with a signature that has succeeded before.
C9_ReplaySafe ==
    [][\A s \in Submitters, sig \in Signatures, u \in Owners, data \in StoreForData,
          t \in StoreForThresholds, dl \in Deadlines, v \in Fees :
          storeSharesFor(s, u, data, t, dl, sig, v) => sig \notin usedSignatures]_vars

\* C10: every ShareConfig the registry records has 3 <= totalShares <= 100
\* and 2 <= threshold <= totalShares; no store with threshold 0 or 1 is
\* accepted, so none leaves such a config behind.
C10_ConfigBounds ==
    \A o \in Owners :
        shareConfigs[o].totalShares > 0 =>
            /\ shareConfigs[o].totalShares >= 3
            /\ shareConfigs[o].totalShares <= 100
            /\ shareConfigs[o].threshold >= 2
            /\ shareConfigs[o].threshold <= shareConfigs[o].totalShares

-----------------------------------------------------------------------------
(* Claims about reconstruction with too few shares                         *)

\* C11: reconstructSecret called with fewer than T distinct shares of
\* generateShares(S, N, T) fails with a validation error: it returns no value.
C11_TooFewSharesRejected ==
    (sPc = "done" /\ Len(sInput) = Cardinality(InputXs) /\ Len(sInput) < sT)
        => ~sOutput.ok

-----------------------------------------------------------------------------
(* Claims about recovery requests                                          *)

\* a is the initiator of o's active recovery request and the lock has expired.
ExpiredInitiator(o, a) ==
    /\ recoveryRequests[o].isActive
    /\ recoveryRequests[o].initiator = a
    /\ now >= recoveryRequests[o].expiresAt

\* C12: if a's recovery request for o is active, o's config and the custodian
\* are active, the time is at least expiresAt and a has not read that
\* custodian within the last 5 minutes, then getShare by a on the custodian
\* succeeds, also when a is no longer a recovery address or the emergency
\* contact of o.
C12_AccessAfterLock ==
    \A o \in Owners : \A a \in Senders \ {o} :
        (ExpiredInitiator(o, a) /\ hasShares(o)) =>
            \A c \in CustodiansOf(o) :
                (/\ custodians[c].isActive
                 /\ now - custodians[c].lastAccessByAddress[a] >= ACCESS_INTERVAL)
                    => ShareGetShareOk(c, a)

\* C12 witness: the initiator has been removed from the recovery list, is not
\* the emergency contact, and has read a custodian of o after the lock expired.
C12_Witness ==
    \E o \in Owners : \E a \in Senders \ {o} : \E c \in CustodiansOf(o) :
        /\ ExpiredInitiator(o, a)
        /\ ~isRecoveryAddress(o, a)
        /\ emergencyContacts[o] # a
        /\ custodians[c].lastAccessByAddress[a] >= recoveryRequests[o].expiresAt

\* C13: initiateRecovery(o) is rejected for every caller while o has an
\* active request, and no step changes the initiator, requestTime or expiresAt
\* of an active request.
C13_OneActiveRequest ==
    /\ [](\A o \in Owners, s \in Addr :
            recoveryRequests[o].isActive => ~InitiateRecoveryOk(s, o))
    /\ [][\A o \in Owners :
            recoveryRequests[o].isActive =>
                /\ recoveryRequests'[o].initiator = recoveryRequests[o].initiator
                /\ recoveryRequests'[o].requestTime = recoveryRequests[o].requestTime
                /\ recoveryRequests'[o].expiresAt = recoveryRequests[o].expiresAt]_vars

\* C13 witness: o has an active request and the initiator, still authorized
\* and past the throttle, is refused a second one for this reason alone.
C13_Witness ==
    \E o \in Owners : \E s \in Senders :
        /\ recoveryRequests[o].isActive
        /\ hasShares(o)
        /\ (s = emergencyContacts[o] \/ isRecoveryAddress(o, s))
        /\ throttleRequests(s).ok

\* C14: cancelRecovery(o) by an address that is not o, not the initiator and
\* not the administrator is rejected, and an active request becomes inactive
\* only in a step that is cancelRecovery(o) by one of these three or the
\* administrator's emergencyCancelRecovery(o).
C14_CancellationAuthority ==
    /\ [](\A o \in Owners, s \in Addr :
            (/\ recoveryRequests[o].isActive
             /\ s \notin {o, recoveryRequests[o].initiator, Admin})
                => ~CancelRecoveryOk(s, o))
    /\ [][\A o \in Owners :
            (recoveryRequests[o].isActive /\ ~recoveryRequests'[o].isActive) =>
                \/ \E s \in {o, recoveryRequests[o].initiator, Admin} : cancelRecovery(s, o)
                \/ emergencyCancelRecovery(Admin, o)]_vars

\* C14 witness: a request that outlived its lock has been cancelled.
C14_Witness ==
    \E o \in Owners :
        /\ ~recoveryRequests[o].isActive
        /\ recoveryRequests[o].initiator # Zero
        /\ now >= recoveryRequests[o].expiresAt

-----------------------------------------------------------------------------
(* Claims about share encryption                                           *)

\* The payload that was encrypted is the one encryptShare builds for cShare.
FromEncryptShare == \E t \in Timestamps : cPayload = EnrichedShare(cShare, t)

C16_FailsClosed ==
    (cPc = "done" /\ FromEncryptShare /\ cTampered)
        => (~cResult.ok /\ cResult.share = NoShare)

\* C16 witness: decryptShare refused a blob whose tag was changed while IV,
\* key and ciphertext were left as encryptShare wrote them.
C16_Witness ==
    /\ cPc = "done" /\ FromEncryptShare /\ cTampered /\ ~cResult.ok
    /\ \E t \in Timestamps, e \in EphemeralKeys, iv \in Ivs :
          LET sealed == parseFromContract(
                            encryptShare(bytesToHex(getPublicKey(cSk)), cShare, t, e, iv))
              seen   == parseFromContract(cBlob)
          IN  /\ seen.iv = sealed.iv
              /\ seen.ephemPublicKey = sealed.ephemPublicKey
              /\ seen.ciphertext = sealed.ciphertext
              /\ seen.mac # sealed.mac

-----------------------------------------------------------------------------
(* Claims about rate limits                                                *)

\* This step is a successful getShare on custodian c whose msg.sender is a:
\* a direct call of an account, or the registry forwarding getShare(u, i).
ReadBy(c, a) ==
    \/ a \in Senders /\ Share_getShare(c, a)
    \/ /\ a = Registry
       /\ \E s \in Senders, u \in Owners, i \in Indices :
             /\ i < Len(userShares[u])
             /\ ShareAt(u, i) = c
             /\ getShare(s, u, i)

\* C18: a successful getShare on a custodian by a caller other than its owner
\* comes at least 5 minutes after that caller's last-access time; the
\* last-access time of a caller and the access counter change only in a
\* successful getShare of that caller, which sets the time to now, so any two
\* successful calls of a non-owner are 5 minutes apart and a rejected call
\* changes neither; the owner's call passes whenever the custodian is active.
C18_CustodianRateLimit ==
    /\ [][\A c \in DOMAIN custodians, a \in Callers :
            (ReadBy(c, a) /\ a # custodians[c].owner) =>
                now - custodians[c].lastAccessByAddress[a] >= ACCESS_INTERVAL]_vars
    /\ [][\A c \in DOMAIN custodians :
            /\ \A a \in Addr :
                  custodians'[c].lastAccessByAddress[a] # custodians[c].lastAccessByAddress[a]
                      => (ReadBy(c, a) /\ custodians'[c].lastAccessByAddress[a] = now)
            /\ custodians'[c].accessCount # custodians[c].accessCount
                  => (/\ custodians'[c].accessCount = custodians[c].accessCount + 1
                      /\ \E a \in Callers : ReadBy(c, a))]_vars
    /\ [](\A c \in DOMAIN custodians :
            custodians[c].isActive => ShareGetShareOk(c, custodians[c].owner))

\* C18 witness: a caller other than the owner has read one custodian twice,
\* the second time just now; the owner has not read it.
C18_Witness ==
    \E c \in DOMAIN custodians : \E a \in Callers \ {custodians[c].owner} :
        /\ custodians[c].accessCount = MaxReads
        /\ custodians[c].lastAccessByAddress[a] = now
        /\ custodians[c].lastAccessByAddress[custodians[c].owner] = 0

\* A successful throttled call of the registry by msg.sender = a: storeShares,
\* storeSharesFor as submitter, getShare for another account's share,
\* initiateRecovery, addRecoveryAddress, removeRecoveryAddress and
\* setEmergencyContact.
ThrottledCallBy(a) ==
    \/ \E data \in DataSets, t \in Thresholds, v \in Fees : storeShares(a, data, t, v)
    \/ \E sig \in Signatures, u \in Owners, data \in StoreForData,
          t \in StoreForThresholds, dl \in Deadlines, v \in Fees :
          storeSharesFor(a, u, data, t, dl, sig, v)
    \/ \E u \in Owners \ {a}, i \in Indices : getShare(a, u, i)
    \/ \E u \in Owners : initiateRecovery(a, u)
    \/ \E x \in Candidates : addRecoveryAddress(a, x)
    \/ \E x \in Candidates : removeRecoveryAddress(a, x)
    \/ \E x \in Contacts : setEmergencyContact(a, x)

\* C19: every successful throttled registry call of an account other than the
\* admin comes at least THROTTLE_DURATION after that account's previous
\* successful throttled call (lastCall holds the time of the previous one,
\* 0 when there was none).
C19_MinimumDelay ==
    [][\A a \in Senders \ {Admin} :
          (ThrottledCallBy(a) /\ lastCall[a] # 0) =>
              now - lastCall[a] >= THROTTLE_DURATION]_vars

\* C20: an account whose last MAX_FAILED_ATTEMPTS registry calls all failed,
\* within the rolling window, has every throttled call rejected while less
\* than an hour has passed since the last of those failures.
C20_EscalatingLockout ==
    \A a \in LockoutCallers :
        ( /\ failures[a].n >= MAX_FAILED_ATTEMPTS
          /\ now - failures[a].since <= COOLDOWN_DURATION
          /\ now - failures[a].at < LOCKOUT_DURATION )
        => ~ \E data \in DataSets, t \in Thresholds, v \in Fees :
                StoreSharesOk(a, data, t, v)

\* The entries of an account's recovery list, and every address the model
\* names as a recovery address.
Entries(o) == {recoveryAddresses[o][i] : i \in DOMAIN recoveryAddresses[o]}
NamedAddresses == {Zero, ListManager, Alice, Bob} \cup {Friends[k] : k \in DOMAIN Friends}

\* C24: every recovery list has at most MAX_RECOVERY entries, no duplicate,
\* neither its owner nor the zero address; addRecoveryAddress is rejected for
\* the zero address, the caller itself, a listed address, a full list and a
\* blacklisted target, and a list changes only by appending the named address
\* or by losing exactly the named address.
C24_RecoveryListInvariant ==
    /\ [](\A o \in Addr :
            /\ Len(recoveryAddresses[o]) <= MAX_RECOVERY
            /\ Cardinality(Entries(o)) = Len(recoveryAddresses[o])
            /\ o \notin Entries(o)
            /\ Zero \notin Entries(o))
    /\ [](\A o \in Addr : \A a \in NamedAddresses :
            ( \/ a = Zero \/ a = o \/ a \in Entries(o)
              \/ Len(recoveryAddresses[o]) >= MAX_RECOVERY
              \/ (a \in DOMAIN blacklisted /\ blacklisted[a]) )
            => ~AddRecoveryAddressOk(o, a))
    /\ [][\A o \in Addr :
            recoveryAddresses'[o] # recoveryAddresses[o] =>
                \E a \in NamedAddresses :
                    \/ /\ addRecoveryAddress(o, a)
                       /\ recoveryAddresses'[o] = Append(recoveryAddresses[o], a)
                    \/ /\ removeRecoveryAddress(o, a)
                       /\ a \in Entries(o)
                       /\ Entries(o)' = Entries(o) \ {a}
                       /\ Len(recoveryAddresses'[o]) = Len(recoveryAddresses[o]) - 1]_vars

\* C24 witness: the list is full after an entry in its middle order was
\* removed (the first friend is gone, the last one has taken its place), and
\* the one address still outside it is blacklisted.
C24_Witness ==
    /\ Len(recoveryAddresses[ListManager]) = MAX_RECOVERY
    /\ Friends[1] \notin Entries(ListManager)
    /\ recoveryAddresses[ListManager][1] = Friends[MAX_RECOVERY]
    /\ Bob \notin Entries(ListManager)
    /\ blacklisted[Bob]

\* C28: right after o has removed a from its recovery list, a not being o's
\* emergency contact, no getShare by a for a share of o (on the custodian or
\* through the registry) can succeed.
C28_RemovalWithdrawsAccess ==
    [][\A o \in Managers : \A a \in Candidates \ {o} :
          (removeRecoveryAddress(o, a) /\ emergencyContacts[o] # a) =>
              /\ \A c \in CustodiansOf(o) : ~ShareGetShareOk(c, a)'
              /\ \A i \in ShareIndices(o) : ~RegistryGetShareOk(a, o, i)']_vars

\* C29: while o has an active config, at least threshold of the custodians
\* that the config's store deployed are active.
C29_ActiveConfigRecoverable ==
    \A o \in Owners :
        hasShares(o) =>
            Cardinality({c \in CreatedByLastStore(o) : custodians[c].isActive})
                >= shareConfigs[o].threshold

\* C30: a successful revokeShares by o changes the isActive flag of o's config,
\* the isActive flags of o's custodians and lastActionTimestamp[o], and
\* nothing else: every other field of every config and custodian, o's recovery
\* list, emergency contact and recovery request, and all that is recorded for
\* other accounts stay as they were.
C30_RevokeFrame ==
    [][\A o \in Senders :
          revokeShares(o) =>
              /\ shareConfigs' = [shareConfigs EXCEPT ![o].isActive = FALSE]
              /\ \A c \in DOMAIN custodians :
                    IF custodians[c].owner = o
                    THEN custodians'[c] = [custodians[c] EXCEPT !.isActive = FALSE]
                    ELSE custodians'[c] = custodians[c]
              /\ DOMAIN custodians' = DOMAIN custodians
              /\ \A a \in Addr \ {o} : lastActionTimestamp'[a] = lastActionTimestamp[a]
              /\ UNCHANGED <<now, paused, serviceFee, userShares, recoveryAddresses,
                             emergencyContacts, recoveryRequests, blacklisted,
                             feeExemptions, failedAttempts, usedSignatures>>]_vars

\* C30 witness: o has revoked its config just now while a recovery request of
\* another account for o is active and o's recovery list is not empty.
C30_Witness ==
    \E o \in Owners :
        /\ shareConfigs[o].totalShares > 0 /\ ~shareConfigs[o].isActive
        /\ \A c \in CustodiansOf(o) : ~custodians[c].isActive
        /\ lastActionTimestamp[o] = now
        /\ recoveryRequests[o].isActive
        /\ recoveryRequests[o].initiator # o
        /\ recoveryRequests[o].requestTime < now
        /\ Len(recoveryAddresses[o]) > 0

\* C26: for every share i of a reconstruction from pairwise-distinct
\* x-coordinates, the denominator d handed to modInverse is non-zero modulo
\* Prime and lies strictly between -Prime and Prime, and modInverse(d, Prime)
\* returns r with 0 <= r < Prime and (d * r) mod Prime = 1.
C26_ModInverseCorrect ==
    (sPc = "done" /\ ValidShares(sInput) /\ Cardinality(InputXs) = Len(sInput)) =>
        \A i \in 1..Len(sInput) :
            LET d == Denominator(sInput, i, 0, Prime)
                r == modInverse(d, Prime)
            IN  /\ d % Prime # 0 /\ -Prime < d /\ d < Prime
                /\ 0 <= r /\ r < Prime
                /\ (d * r) % Prime = 1

\* C25: two calls of modInverse(a, Prime) on operands of 1..Prime-1 execute
\* the same number of loop iterations.
C25_DataIndependentInverse ==
    inverse.pc = "done" => inverse.runA.steps = inverse.runB.steps

\* The positions of the request whose getShare succeeded, and those that failed.
Fetched == {k \in 1..Len(multi.indices) : multi.outcomes[k] = "ok"}
Failed  == {k \in 1..Len(multi.indices) : multi.outcomes[k] # "ok"}

\* C21: for an owner with shares and a non-empty request, getMultipleShares
\* returns the fetched shares when their number reaches the owner's threshold,
\* and otherwise throws an error that lists the cause of every failed index.
C21_BestEffortRetrieval ==
    (multi.pc = "done" /\ multi.hasShares /\ Len(multi.indices) > 0) =>
        IF Cardinality(Fetched) >= multi.threshold
        THEN /\ multi.result.ok
             /\ Len(multi.result.shares) = Cardinality(Fetched)
             /\ \A k \in Fetched : \E j \in 1..Len(multi.result.shares) :
                   multi.result.shares[j] =
                       [index |-> multi.indices[k], data |-> <<"share", multi.indices[k]>>]
        ELSE /\ ~multi.result.ok
             /\ \A k \in Failed : \E j \in 2..Len(multi.result.error) :
                   multi.result.error[j] = <<multi.indices[k], multi.outcomes[k]>>

\* The transient class of errors: network, timeout and server errors, and
\* those whose message speaks of the nonce, of an underpriced transaction or
\* of a replacement fee that is too low.
TransientClass(e) ==
    \/ e.code \in {"NETWORK_ERROR", "TIMEOUT", "SERVER_ERROR"}
    \/ \E k \in 1..Len(e.message) :
          \/ e.message[k] \in {"nonce", "underpriced"}
          \/ /\ k + 3 <= Len(e.message)
             /\ SubSeq(e.message, k, k + 3) = <<"replacement", "fee", "too", "low">>
RetryEnded == retry.pc \in {"returned", "thrown"}

\* C22: _sendTransactionWithRetry ends; txFunction is invoked at most
\* maxRetries + 1 times, and again only after an error of the transient class;
\* the function returns the result of its first successful invocation and
\* returns only then; it throws after one invocation whose error is not
\* transient, and throws the last error when maxRetries + 1 invocations all
\* failed with transient errors.
C22_BoundedRetry ==
    /\ <>RetryEnded
    /\ [](retry.calls <= retry.maxRetries + 1)
    /\ [][retry'.calls # retry.calls =>
            /\ retry'.calls = retry.calls + 1
            /\ retry.calls > 0 =>
                  (~retry.log[retry.calls].ok /\ TransientClass(retry.log[retry.calls].error))]_vars
    /\ [](retry.pc = "returned" =>
            /\ retry.calls > 0 /\ retry.log[retry.calls].ok
            /\ \A k \in 1..(retry.calls - 1) : ~retry.log[k].ok
            /\ retry.value = <<"tx", retry.calls>>)
    /\ [](retry.pc = "thrown" =>
            /\ \A k \in 1..retry.calls : ~retry.log[k].ok
            /\ (retry.calls > 0 /\ ~TransientClass(retry.log[1].error)) => retry.calls = 1
            /\ (retry.calls > 0 /\ \A k \in 1..retry.calls : TransientClass(retry.log[k].error))
                  => /\ retry.calls = retry.maxRetries + 1
                     /\ retry.thrown = retry.log[retry.calls].error)
    /\ [][RetryEnded => retry' = retry]_vars

\* C22 witness: the budget of three retries is used up by four transient
\* errors, the last of which is thrown.
C22_Witness ==
    /\ retry.pc = "thrown"
    /\ retry.maxRetries = 3 /\ retry.calls = 4
    /\ retry.thrown = retry.log[4].error
    /\ retry.thrown.code = "REPLACEMENT_UNDERPRICED"

\* C23: when the confirmation wait timed out, the receipt is queried before
\* the wait ends; if the query finds the transaction mined, that receipt is
\* returned; and the timeout error is thrown only when the query found no
\* mined receipt.
C23_TimeoutRecheck ==
    (wait.pc = "done" /\ wait.raced = "timeout") =>
        /\ wait.waited.queried
        /\ (wait.waited.receipt.found /\ wait.waited.receipt.blockNumber = MinedBlock)
              => (wait.waited.returned /\ wait.waited.value = wait.waited.receipt)
        /\ ~wait.waited.returned =>
              (wait.waited.error = TimeoutError /\ ~wait.waited.receipt.found)

\* C23 witness: the wait timed out while the transaction was pending, a block
\* then included it, and the wait returned its receipt.
C23_Witness ==
    /\ wait.pc = "done" /\ wait.raced = "timeout"
    /\ wait.waited.returned
    /\ wait.waited.value = ReceiptOf("success")
    /\ wait.result = "resolved"

\* C27: a mutating operation resolves only if its transaction was mined with
\* success status, and it rejects when tx.wait() rejected because the
\* transaction was mined but reverted.
C27_RevertNeverSuccess ==
    wait.pc = "done" =>
        /\ wait.result = "resolved" => wait.chain = "success"
        /\ wait.raced = "reverted" => wait.result = "rejected"

====
